---- MODULE Spec2Model ----
(***************************************************************************)
(* A model of the dashboard generator's data core:                         *)
(*   - data_merger.merge_by_relationships   (specification SpecRel)        *)
(*   - data_merger.merge_dataframes         (specification SpecFlat)       *)
(*   - data_merger.auto_detect_relationships (specification SpecDetect)    *)
(*   - csv_analyzer.classify_columns        (specification SpecClassify)   *)
(*                                                                         *)
(* A table (pandas DataFrame) is a record [cols, rows]: cols is the        *)
(* sequence of column labels, rows the sequence of rows, each row a        *)
(* sequence of cells aligned with cols.  A cell is {} (missing, NaN/NaT)   *)
(* or {v} (the value v).  Column labels and table identifiers are strings. *)
(***************************************************************************)
EXTENDS Integers, Sequences, FiniteSets, TLC

VARIABLES
    pc,               \* position of the running function
    how,              \* join type argument (both merge modes)
    log,              \* the log list of the running merge
    result,           \* accumulated merge result (a table)
    error,            \* the exception raised, [kind |-> "none"] while none
    relationships,    \* merge_by_relationships: the edge list argument
    column_mappings,  \* rename maps (dict by id, or list by position)
    mapped,           \* merge_by_relationships: id -> renamed table
    merged_ids,       \* merge_by_relationships: ids already in result
    remaining,        \* merge_by_relationships: edges still to process
    iteration,        \* merge_by_relationships: passes of the while loop
    dfs,              \* merge_dataframes: the list of input tables
    merge_keys,       \* merge_dataframes: the key list argument
    mapped_dfs,       \* merge_dataframes: the renamed tables
    next_i,           \* merge_dataframes: index of the next table to join
    files_info,       \* auto_detect_relationships: argument
    detected,         \* auto_detect_relationships: result of the call
    detected_rev,     \* auto_detect_relationships: result on the reversed list
    df_in,            \* classify_columns: the table as the caller passed it
    df,               \* classify_columns: the caller's table (mutated in place)
    meta,             \* classify_columns: result of the first call
    meta2,            \* classify_columns: result of the second call
    clean_arg,        \* clean_dataframe: the table the caller passed
    options,          \* clean_dataframe: the keyword arguments
    copy_on_write,    \* clean_dataframe: pandas runs with copy-on-write (pandas 3)
    clean_df,         \* clean_dataframe: the working copy df
    numeric_cols,     \* clean_dataframe: names of the numeric columns
    cat_cols,         \* clean_dataframe: names of the categorical columns
    date_cols,        \* clean_dataframe: names of the datetime columns
    original_rows,    \* clean_dataframe: len(df) at entry
    original_cols,    \* clean_dataframe: len(df.columns) at entry
    run,              \* clean_dataframe: number of the call under way
    key_df,           \* detect_candidate_keys: the table argument
    candidates,       \* detect_candidate_keys: the list being built
    col_i,            \* detect_candidate_keys: position of the column loop
    csv_files,        \* main: the files stored for the dashboard
    performed,        \* main: the operations the last request carried out, with row counts
    status,           \* main: status code of the last response
    request,          \* main: the request being served
    sessions,         \* database: the rows of the sessions table
    dashboards,       \* database: the rows of the dashboards table, in order of creation
    merge_sessions,   \* database: the rows of the merge_sessions table, in order of creation
    served            \* main: the last response, with the session it was made with

vars == <<pc, how, log, result, error, relationships, column_mappings, mapped,
          merged_ids, remaining, iteration, dfs, merge_keys, mapped_dfs, next_i,
          files_info, detected, detected_rev, df_in, df, meta, meta2,
          clean_arg, options, copy_on_write, clean_df, numeric_cols, cat_cols,
          date_cols, original_rows, original_cols, run,
          key_df, candidates, col_i, csv_files, performed, status, request,
          sessions, dashboards, merge_sessions, served>>

relVars == <<relationships, mapped, merged_ids, remaining, iteration>>
flatVars == <<dfs, merge_keys, mapped_dfs, next_i>>
detectVars == <<files_info, detected, detected_rev>>
classifyVars == <<df_in, df, meta, meta2>>
cleanVars == <<clean_arg, options, copy_on_write, clean_df, numeric_cols, cat_cols,
               date_cols, original_rows, original_cols, run>>
keyVars == <<key_df, candidates, col_i>>
reqVars == <<csv_files, performed, status, request>>
sessVars == <<sessions, dashboards, merge_sessions, served>>

(***************************************************************************)
(* Bounds of the model.                                                    *)
(***************************************************************************)
MaxEdges == 3        \* longest relationship list drawn
MaxKeys == 2         \* longest merge_keys list drawn
MaxTables == 3       \* longest table list drawn for merge_dataframes
MaxFiles == 3        \* longest files_info list drawn
MaxColumns == 2      \* most columns of a table drawn for classify_columns
MaxRuns == 2         \* calls of clean_dataframe in a row, each on the table the last returned
MaxStored == 3       \* most files stored for the dashboard
max_rows == 3        \* analyze_csv's max_rows, scaled down
MaxSessions == 2     \* most rows of the sessions table
MaxDashboards == 2   \* most dashboards ever created
MaxMerges == 2       \* most merge sessions ever stored

(***************************************************************************)
(* Sequence helpers.                                                       *)
(***************************************************************************)
Range(s) == {s[i] : i \in DOMAIN s}

Count(s, x) == Cardinality({i \in DOMAIN s : s[i] = x})

IndexOf(s, x) == CHOOSE i \in DOMAIN s : s[i] = x /\ \A j \in 1..(i - 1) : s[j] # x

RECURSIVE ConcatAll(_)
ConcatAll(ss) == IF ss = <<>> THEN <<>> ELSE Head(ss) \o ConcatAll(Tail(ss))

RemoveFirst(s, x) ==
    LET i == IndexOf(s, x)
    IN  IF x \in Range(s) THEN SubSeq(s, 1, i - 1) \o SubSeq(s, i + 1, Len(s)) ELSE s

HasDuplicates(s) == \E i, j \in DOMAIN s : i < j /\ s[i] = s[j]

SeqsUpTo(S, n) == UNION {[1..k -> S] : k \in 1..n}

EmptyMap == <<>>

NoError == [kind |-> "none", table |-> "", missing |-> <<>>, available |-> <<>>]

NoTable == [cols |-> <<>>, rows |-> <<>>]

MkTable(cols, rows) ==
    [cols |-> cols,
     rows |-> [i \in DOMAIN rows |-> [j \in DOMAIN rows[i] |-> {rows[i][j]}]]]

(***************************************************************************)
(* pandas operations used by the merger.                                   *)
(***************************************************************************)
\* a list of join types that also admits "full"
VALID_JOIN_TYPES_with_full == {"inner", "left", "right", "outer", "full"}

VALID_JOIN_TYPES == {"inner", "left", "right", "outer"}

\* df.rename(columns=mapping); an empty mapping returns the table itself
apply_column_mapping(t, mapping) ==
    IF DOMAIN mapping = {} THEN t
    ELSE [t EXCEPT !.cols = [i \in DOMAIN t.cols |->
                                IF t.cols[i] \in DOMAIN mapping
                                THEN mapping[t.cols[i]] ELSE t.cols[i]]]

\* labels of cols with suffix appended to those in overlap (no suffix: unchanged)
Suffixed(cols, overlap, suffix) ==
    [i \in DOMAIN cols |-> IF cols[i] \in overlap THEN cols[i] \o suffix ELSE cols[i]]

\* pandas refuses suffixes that create a duplicate label that was not one before
CreatesDuplicate(cols, renamed) ==
    \E i, j \in DOMAIN cols : i < j /\ renamed[i] = renamed[j] /\ cols[i] # cols[j]

KeyOf(cols, row, keys) == [k \in DOMAIN keys |-> row[IndexOf(cols, keys[k])]]

Nulls(n) == [i \in 1..n |-> {}]

\* an empty key list taken as a valid one
EmptyOn_accepted(keys) == FALSE

\* on=[]: pandas finds no key to join on and raises
EmptyOn(keys) == keys = <<>>

\* DataFrame.merge(right, left_on=lkeys, right_on=rkeys, how, suffixes=(lsuf, rsuf));
\* on=K is left_on=right_on=K: a right key named like its left key is coalesced.
\* An empty key list, a key label that is absent or not unique, and suffixes that
\* create duplicate labels make pandas raise (ok = FALSE).
\* Row order: inner/left follow the left rows, right follows the right rows;
\* outer is given as the left-join rows followed by the unmatched right rows.
PdMerge(left, right, lkeys, rkeys, h, lsuf, rsuf) ==
    LET coalesced == {rkeys[k] : k \in {k \in DOMAIN rkeys : lkeys[k] = rkeys[k]}}
        keepIdx   == SelectSeq([i \in DOMAIN right.cols |-> i],
                               LAMBDA i : right.cols[i] \notin coalesced)
        rcols     == [n \in DOMAIN keepIdx |-> right.cols[keepIdx[n]]]
        overlap   == Range(left.cols) \cap Range(rcols)
        lnew      == Suffixed(left.cols, overlap, lsuf)
        rnew      == Suffixed(rcols, overlap, rsuf)
        bad       == \/ EmptyOn(lkeys)
                     \/ \E k \in DOMAIN lkeys : Count(left.cols, lkeys[k]) # 1
                     \/ \E k \in DOMAIN rkeys : Count(right.cols, rkeys[k]) # 1
                     \/ CreatesDuplicate(left.cols, lnew)
                     \/ CreatesDuplicate(rcols, rnew)
        RPart(r)  == [n \in DOMAIN keepIdx |-> r[keepIdx[n]]]
        Match(l, r) == KeyOf(left.cols, l, lkeys) = KeyOf(right.cols, r, rkeys)
        Pair(l, r) == l \o RPart(r)
        \* a right row without a left match: the coalesced keys carry its key
        RightOnly(r) ==
            [i \in DOMAIN left.cols |->
                IF \E k \in DOMAIN lkeys : lkeys[k] = left.cols[i] /\ lkeys[k] = rkeys[k]
                THEN r[IndexOf(right.cols, left.cols[i])] ELSE {}] \o RPart(r)
        LeftOnly(l) == l \o Nulls(Len(keepIdx))
        MatchesOfLeft(l) ==
            LET rs == SelectSeq(right.rows, LAMBDA r : Match(l, r))
            IN  [n \in DOMAIN rs |-> Pair(l, rs[n])]
        MatchesOfRight(r) ==
            LET ls == SelectSeq(left.rows, LAMBDA l : Match(l, r))
            IN  [n \in DOMAIN ls |-> Pair(ls[n], r)]
        innerRows == ConcatAll([i \in DOMAIN left.rows |-> MatchesOfLeft(left.rows[i])])
        leftRows  == ConcatAll([i \in DOMAIN left.rows |->
                        IF MatchesOfLeft(left.rows[i]) = <<>>
                        THEN <<LeftOnly(left.rows[i])>>
                        ELSE MatchesOfLeft(left.rows[i])])
        unmatchedRight == SelectSeq(right.rows,
                             LAMBDA r : \A i \in DOMAIN left.rows : ~Match(left.rows[i], r))
        rightRows == ConcatAll([i \in DOMAIN right.rows |->
                        IF MatchesOfRight(right.rows[i]) = <<>>
                        THEN <<RightOnly(right.rows[i])>>
                        ELSE MatchesOfRight(right.rows[i])])
        outerRows == leftRows \o [n \in DOMAIN unmatchedRight |-> RightOnly(unmatchedRight[n])]
        rows == CASE h = "inner" -> innerRows
                  [] h = "left"  -> leftRows
                  [] h = "right" -> rightRows
                  [] OTHER       -> outerRows
    IN  IF bad THEN [ok |-> FALSE, df |-> NoTable]
        ELSE [ok |-> TRUE, df |-> [cols |-> lnew \o rnew, rows |-> rows]]

\* DataFrame.merge(right, how="cross") with the default suffixes ("_x", "_y")
PdCrossMerge(left, right) ==
    LET overlap == Range(left.cols) \cap Range(right.cols)
        lnew    == Suffixed(left.cols, overlap, "_x")
        rnew    == Suffixed(right.cols, overlap, "_y")
        bad     == CreatesDuplicate(left.cols, lnew) \/ CreatesDuplicate(right.cols, rnew)
        rows    == ConcatAll([i \in DOMAIN left.rows |->
                      [j \in DOMAIN right.rows |-> left.rows[i] \o right.rows[j]]])
    IN  IF bad THEN [ok |-> FALSE, df |-> NoTable]
        ELSE [ok |-> TRUE, df |-> [cols |-> lnew \o rnew, rows |-> rows]]

(***************************************************************************)
(* Input tables of the merge runs (the caller's dfs_map / dfs).            *)
(***************************************************************************)
TableA == MkTable(<<"id", "x">>, <<<<1, 10>>, <<2, 20>>>>)

TableB == MkTable(<<"id", "a_id", "x">>, <<<<1, 1, 5>>, <<8, 1, 6>>, <<9, 4, 7>>>>)

TableC == MkTable(<<"b_id", "x">>, <<<<1, 0>>, <<9, 1>>>>)

\* dict csv_file_id -> DataFrame; dfs_order is the dict's insertion order
dfs_map == ("a" :> TableA) @@ ("b" :> TableB) @@ ("c" :> TableC)

dfs_order == <<"a", "b", "c">>

Edge(fc, fcol, tc, tcol) ==
    [from_csv |-> fc, from_column |-> fcol, to_csv |-> tc, to_column |-> tcol]

\* the edges relationship lists are drawn from; "d" is in no dfs_map, "zz" in no table
EdgePool ==
    { Edge("a", "id", "b", "a_id"),      \* keyed, different names
      Edge("b", "a_id", "a", "id"),      \* the same link, from the other side
      Edge("a", "id", "b", "id"),        \* keyed, same name
      Edge("c", "b_id", "b", "id"),      \* b's id, which a join after a's may suffix
      Edge("c", "b_id", "c", "b_id"),    \* self-referencing
      Edge("a", "zz", "c", "b_id"),      \* names a column that does not exist
      Edge("b", "id", "d", "id"),        \* names a table that does not exist
      Edge("d", "id", "d", "id") }       \* never reachable

RelMappingChoices == { EmptyMap, ("c" :> ("b_id" :> "id")) }

HowChoices == VALID_JOIN_TYPES \cup {"full"}

(***************************************************************************)
(* merge_by_relationships                                                  *)
(***************************************************************************)
Entry(action, detail) == [action |-> action, detail |-> detail]

\* (column_mappings or {}).get(cid, {})
MappingFor(cms, cid) == IF cid \in DOMAIN cms THEN cms[cid] ELSE EmptyMap

\* lines 318-326: the renamed copies, and one column_mapping entry per renamed table
MappedTables(cms) ==
    [cid \in DOMAIN dfs_map |-> apply_column_mapping(dfs_map[cid], MappingFor(cms, cid))]

\* no column_mapping entry written
MappingLog_none(cms) == <<>>

MappingLog(cms) ==
    LET ids == SelectSeq(dfs_order, LAMBDA cid : DOMAIN MappingFor(cms, cid) # {})
    IN  [n \in DOMAIN ids |-> Entry("column_mapping", <<ids[n], cms[ids[n]]>>)]

max_iter_loose == Len(relationships) * 3 + 5

\* line 350
max_iter == Len(relationships) * 2 + 5

LoopContinues == remaining # <<>> /\ iteration < max_iter

\* only the first branch of the test, lines 364-369
Straddles_from_side(rel, ids) == rel.from_csv \in ids /\ rel.to_csv \notin ids

Straddles(rel, ids) ==
    \/ rel.from_csv \in ids /\ rel.to_csv \notin ids
    \/ rel.to_csv \in ids /\ rel.from_csv \notin ids

BothMerged(rel, ids) == rel.from_csv \in ids /\ rel.to_csv \in ids

NoEdge == Edge("", "", "", "")

\* lines 357-382: the for loop over list(remaining) up to the first edge with
\* exactly one endpoint merged; edges with both endpoints merged are removed
RECURSIVE ScanEdges(_, _, _, _)
ScanEdges(snapshot, k, rem, ids) ==
    IF k > Len(snapshot) THEN [found |-> FALSE, rel |-> NoEdge, remaining |-> rem]
    ELSE LET rel == snapshot[k]
         IN  IF Straddles(rel, ids)
             THEN [found |-> TRUE, rel |-> rel, remaining |-> rem]
             ELSE IF BothMerged(rel, ids)
             THEN ScanEdges(snapshot, k + 1, RemoveFirst(rem, rel), ids)
             ELSE ScanEdges(snapshot, k + 1, rem, ids)

Prefix8(id) == SubSeq(id, 1, IF Len(id) < 8 THEN Len(id) ELSE 8)

Outcome(err, res, ids, rem, lg) ==
    [error |-> err, result |-> res, merged_ids |-> ids, remaining |-> rem, log |-> lg]

Raise(kind, table, missing, available) ==
    [kind |-> kind, table |-> table, missing |-> missing, available |-> available]

\* lines 363-425: join the table at the unmerged end of rel into result
JoinEdge(rel, rem) ==
    LET fromIn     == rel.from_csv \in merged_ids
        joining_id == IF fromIn THEN rel.to_csv ELSE rel.from_csv
        left_col   == IF fromIn THEN rel.from_column ELSE rel.to_column
        right_col  == IF fromIn THEN rel.to_column ELSE rel.from_column
        fail(e)    == Outcome(e, result, merged_ids, rem, log)
    IN  IF joining_id \notin DOMAIN mapped
        THEN fail(Raise("KeyError", joining_id, <<>>, <<>>))
        ELSE
        LET right_df == mapped[joining_id]
            m == PdMerge(result, right_df, <<left_col>>, <<right_col>>, how,
                         "", "_" \o Prefix8(joining_id))
        IN  IF left_col \notin Range(result.cols)
            THEN fail(Raise("ColumnNotFound", "merged result", <<left_col>>, result.cols))
            ELSE IF right_col \notin Range(right_df.cols)
            THEN fail(Raise("ColumnNotFound", joining_id, <<right_col>>, right_df.cols))
            ELSE IF ~m.ok
            THEN fail(Raise("MergeError", joining_id, <<>>, <<>>))
            ELSE Outcome(NoError, m.df, merged_ids \cup {joining_id}, RemoveFirst(rem, rel),
                         Append(log, Entry("merge",
                            <<joining_id, Len(right_df.rows), left_col, right_col, how,
                              Len(m.df.rows)>>)))

\* the loop without the block of lines 427-444
CrossJoinFallback_absent(o) == o

\* lines 427-444: only the first remaining edge is looked at; its first endpoint
\* that is unmerged and present in mapped is cross-joined into the result
CrossJoinFallback(o) ==
    LET rel   == o.remaining[1]
        cands == SelectSeq(<<rel.from_csv, rel.to_csv>>,
                           LAMBDA cid : cid \notin o.merged_ids /\ cid \in DOMAIN mapped)
    IN  IF cands = <<>> THEN o
        ELSE LET cid == cands[1]
                 m   == PdCrossMerge(o.result, mapped[cid])
             IN  IF ~m.ok
                 THEN [o EXCEPT !.error = Raise("MergeError", cid, <<>>, <<>>)]
                 ELSE Outcome(NoError, m.df, o.merged_ids \cup {cid}, o.remaining,
                              Append(o.log, Entry("warning", <<cid>>)))

\* the pass with the fallback's guard reduced to "if remaining:"
PassOutcome_fallback_after_join ==
    LET scan == ScanEdges(remaining, 1, remaining, merged_ids)
        o    == IF scan.found THEN JoinEdge(scan.rel, scan.remaining)
                ELSE Outcome(NoError, result, merged_ids, scan.remaining, log)
    IN  IF o.error.kind = "none" /\ o.remaining # <<>> THEN CrossJoinFallback(o) ELSE o

\* one pass of the while loop, lines 353-444
PassOutcome ==
    LET scan == ScanEdges(remaining, 1, remaining, merged_ids)
        idle == Outcome(NoError, result, merged_ids, scan.remaining, log)
    IN  IF scan.found THEN JoinEdge(scan.rel, scan.remaining)
        ELSE IF scan.remaining # <<>> THEN CrossJoinFallback(idle)
        ELSE idle

\* lines 310-351
RelStart ==
    /\ pc = "start"
    /\ LET start_id == relationships[1].from_csv
           m == MappedTables(column_mappings)
       IN  IF relationships = <<>>
           THEN /\ error' = Raise("NoRelationships", "", <<>>, <<>>)
                /\ pc' = "error"
                /\ UNCHANGED <<log, result, mapped, merged_ids, remaining>>
           ELSE IF how \notin VALID_JOIN_TYPES
           THEN /\ error' = Raise("InvalidJoinType", "", <<>>, <<>>)
                /\ pc' = "error"
                /\ UNCHANGED <<log, result, mapped, merged_ids, remaining>>
           ELSE IF start_id \notin DOMAIN m
           THEN /\ error' = Raise("KeyError", start_id, <<>>, <<>>)
                /\ pc' = "error"
                /\ mapped' = m
                /\ log' = MappingLog(column_mappings)
                /\ UNCHANGED <<result, merged_ids, remaining>>
           ELSE /\ mapped' = m
                /\ result' = m[start_id]
                /\ merged_ids' = {start_id}
                /\ log' = Append(MappingLog(column_mappings),
                                 Entry("start", <<start_id, Len(m[start_id].rows)>>))
                /\ remaining' = relationships
                /\ pc' = "loop"
                /\ UNCHANGED error
    /\ UNCHANGED <<how, relationships, column_mappings, iteration>>
    /\ UNCHANGED <<flatVars, detectVars, classifyVars, cleanVars, keyVars, reqVars, sessVars>>

RelPass ==
    /\ pc = "loop"
    /\ LoopContinues
    /\ iteration' = iteration + 1
    /\ LET o == PassOutcome
       IN  /\ error' = o.error
           /\ result' = o.result
           /\ merged_ids' = o.merged_ids
           /\ remaining' = o.remaining
           /\ log' = o.log
           /\ pc' = IF o.error.kind = "none" THEN "loop" ELSE "error"
    /\ UNCHANGED <<how, relationships, column_mappings, mapped>>
    /\ UNCHANGED <<flatVars, detectVars, classifyVars, cleanVars, keyVars, reqVars, sessVars>>

\* lines 446-452
RelFinish ==
    /\ pc = "loop"
    /\ ~LoopContinues
    /\ log' = Append(log, Entry("summary", <<Len(result.rows), Len(result.cols)>>))
    /\ pc' = "done"
    /\ UNCHANGED <<how, result, error, relationships, column_mappings, mapped,
                   merged_ids, remaining, iteration>>
    /\ UNCHANGED <<flatVars, detectVars, classifyVars, cleanVars, keyVars, reqVars, sessVars>>

IdleFlat == dfs = <<>> /\ merge_keys = <<>> /\ mapped_dfs = <<>> /\ next_i = 0

IdleRel ==
    /\ relationships = <<>> /\ mapped = EmptyMap /\ merged_ids = {}
    /\ remaining = <<>> /\ iteration = 0

IdleDetect == files_info = <<>> /\ detected = <<>> /\ detected_rev = <<>>

IdleClassify == df_in = EmptyMap /\ df = EmptyMap /\ meta = EmptyMap /\ meta2 = EmptyMap

IdleClean ==
    /\ clean_arg = EmptyMap /\ options = EmptyMap /\ copy_on_write = FALSE
    /\ clean_df = EmptyMap /\ numeric_cols = <<>> /\ cat_cols = <<>> /\ date_cols = <<>>
    /\ original_rows = 0 /\ original_cols = 0 /\ run = 0

IdleKeys == key_df = EmptyMap /\ candidates = <<>> /\ col_i = 0

NoRequest == <<"none", 0>>

NoResponse == [sid |-> "", endpoint |-> "", owner |-> "", status |-> 0, data_of |-> {}]

IdleSessions ==
    sessions = {} /\ dashboards = <<>> /\ merge_sessions = <<>> /\ served = NoResponse

IdleDashboard == csv_files = <<>> /\ performed = <<>> /\ status = 0 /\ request = NoRequest

IdleRequests == IdleDashboard /\ IdleSessions

InitRel ==
    /\ pc = "start"
    /\ how \in HowChoices
    /\ relationships \in SeqsUpTo(EdgePool, MaxEdges) \cup {<<>>}
    /\ column_mappings \in RelMappingChoices
    /\ log = <<>> /\ result = NoTable /\ error = NoError
    /\ mapped = EmptyMap /\ merged_ids = {} /\ remaining = <<>> /\ iteration = 0
    /\ IdleFlat /\ IdleDetect /\ IdleClassify /\ IdleClean /\ IdleKeys /\ IdleRequests

NextRel == RelStart \/ RelPass \/ RelFinish

SpecRel == InitRel /\ [][NextRel]_vars

(***************************************************************************)
(* merge_dataframes                                                        *)
(***************************************************************************)
TablePool == {TableA, TableB, TableC}

KeyPool == {"id", "x", "zz"}

\* column_mappings: None (<<>>) or a list of rename dicts, one per position
FlatMappingChoices ==
    { <<>>,
      <<("id" :> "pk")>>,
      <<("a_id" :> "x_2")>>,
      <<EmptyMap, EmptyMap, ("b_id" :> "id")>> }

\* column_mappings[i] if column_mappings and i < len(column_mappings) else {}
MappingAt(cms, i) == IF i \in DOMAIN cms THEN cms[i] ELSE EmptyMap

\* lines 247-254
FlatMapped(tables, cms) ==
    [i \in DOMAIN tables |-> apply_column_mapping(tables[i], MappingAt(cms, i))]

FlatMappingLog(tables, cms) ==
    LET idx == SelectSeq([i \in DOMAIN tables |-> i],
                         LAMBDA i : DOMAIN MappingAt(cms, i) # {})
    IN  [n \in DOMAIN idx |-> Entry("column_mapping", <<idx[n], cms[idx[n]]>>)]

CsvName(i) == "CSV #" \o ToString(i)

\* the validation run against the tables as passed in, before the renames
MissingKeys_unmapped(i) ==
    SelectSeq(merge_keys, LAMBDA k : k \notin Range(dfs[i].cols))

\* line 258: missing = [k for k in merge_keys if k not in df.columns]
MissingKeys(i) ==
    SelectSeq(merge_keys,
              LAMBDA k : k \notin Range(FlatMapped(dfs, column_mappings)[i].cols))

\* the single-table shortcut never taken
OnlyOne_never(tables) == FALSE

\* line 242: len(dfs) == 1
OnlyOne(tables) == Len(tables) = 1

\* lines 234-264
FlatStart ==
    /\ pc = "start"
    /\ LET m   == FlatMapped(dfs, column_mappings)
           bad == {i \in DOMAIN dfs : MissingKeys(i) # <<>>}
           first == CHOOSE i \in bad : \A j \in bad : i <= j
       IN  IF how \notin VALID_JOIN_TYPES
           THEN /\ error' = Raise("InvalidJoinType", "", <<>>, <<>>)
                /\ pc' = "error"
                /\ UNCHANGED <<log, result, mapped_dfs, next_i>>
           ELSE IF dfs = <<>>
           THEN /\ error' = Raise("NoDataFrames", "", <<>>, <<>>)
                /\ pc' = "error"
                /\ UNCHANGED <<log, result, mapped_dfs, next_i>>
           ELSE IF OnlyOne(dfs)
           THEN /\ log' = <<Entry("skip", <<>>)>>
                /\ result' = dfs[1]
                /\ pc' = "done"
                /\ UNCHANGED <<error, mapped_dfs, next_i>>
           ELSE IF bad # {}
           THEN /\ error' = Raise("MissingMergeKeys", CsvName(first),
                                  MissingKeys(first), m[first].cols)
                /\ pc' = "error"
                /\ mapped_dfs' = m
                /\ log' = FlatMappingLog(dfs, column_mappings)
                /\ UNCHANGED <<result, next_i>>
           ELSE /\ mapped_dfs' = m
                /\ log' = FlatMappingLog(dfs, column_mappings)
                /\ result' = m[1]
                /\ next_i' = 2
                /\ pc' = "joining"
                /\ UNCHANGED error
    /\ UNCHANGED <<how, column_mappings, dfs, merge_keys>>
    /\ UNCHANGED <<relVars, detectVars, classifyVars, cleanVars, keyVars, reqVars, sessVars>>

\* lines 265-273: one turn of the sequential merge loop
FlatJoin ==
    /\ pc = "joining"
    /\ next_i <= Len(mapped_dfs)
    /\ LET right == mapped_dfs[next_i]
           m == PdMerge(result, right, merge_keys, merge_keys, how,
                        "", "_" \o ToString(next_i))
       IN  IF ~m.ok
           THEN /\ error' = Raise("MergeError", CsvName(next_i), <<>>, <<>>)
                /\ pc' = "error"
                /\ UNCHANGED <<log, result, next_i>>
           ELSE /\ result' = m.df
                /\ log' = Append(log, Entry("merge",
                              <<next_i, Len(right.rows), Len(result.rows), merge_keys, how,
                                Len(m.df.rows)>>))
                /\ next_i' = next_i + 1
                /\ UNCHANGED <<pc, error>>
    /\ UNCHANGED <<how, column_mappings, dfs, merge_keys, mapped_dfs>>
    /\ UNCHANGED <<relVars, detectVars, classifyVars, cleanVars, keyVars, reqVars, sessVars>>

\* lines 275-282
FlatFinish ==
    /\ pc = "joining"
    /\ next_i > Len(mapped_dfs)
    /\ log' = Append(log, Entry("summary", <<Len(result.rows), Len(result.cols)>>))
    /\ pc' = "done"
    /\ UNCHANGED <<how, result, error, column_mappings, dfs, merge_keys, mapped_dfs, next_i>>
    /\ UNCHANGED <<relVars, detectVars, classifyVars, cleanVars, keyVars, reqVars, sessVars>>

InitFlat ==
    /\ pc = "start"
    /\ how \in HowChoices
    /\ dfs \in SeqsUpTo(TablePool, MaxTables) \cup {<<>>}
    /\ merge_keys \in SeqsUpTo(KeyPool, MaxKeys) \cup {<<>>}
    /\ column_mappings \in FlatMappingChoices
    /\ log = <<>> /\ result = NoTable /\ error = NoError
    /\ mapped_dfs = <<>> /\ next_i = 0
    /\ IdleRel /\ IdleDetect /\ IdleClassify /\ IdleClean /\ IdleKeys /\ IdleRequests

NextFlat == FlatStart \/ FlatJoin \/ FlatFinish

SpecFlat == InitFlat /\ [][NextFlat]_vars

(***************************************************************************)
(* auto_detect_relationships                                               *)
(***************************************************************************)
UpperLetters == "ABCDEFGHIJKLMNOPQRSTUVWXYZ"

LowerLetters == "abcdefghijklmnopqrstuvwxyz"

LowerMap ==
    [c \in {SubSeq(UpperLetters, i, i) : i \in 1..Len(UpperLetters)} |->
        LET i == CHOOSE i \in 1..Len(UpperLetters) : SubSeq(UpperLetters, i, i) = c
        IN  SubSeq(LowerLetters, i, i)]

LowerChar(c) == IF c \in DOMAIN LowerMap THEN LowerMap[c] ELSE c

\* str.lower()
RECURSIVE LowerFrom(_, _)
LowerFrom(str, i) ==
    IF i > Len(str) THEN "" ELSE LowerChar(SubSeq(str, i, i)) \o LowerFrom(str, i + 1)

Lower(str) == LowerFrom(str, 1)

\* str.endswith(suffix)
EndsWith(str, suffix) ==
    Len(str) >= Len(suffix) /\ SubSeq(str, Len(str) - Len(suffix) + 1, Len(str)) = suffix

\* the key-name test without its "_code" alternative
is_key_like_no_code(col_name) ==
    LET col_lower == Lower(col_name)
    IN  \/ EndsWith(col_lower, "_id")
        \/ col_lower = "id"
        \/ EndsWith(col_lower, "id")
        \/ EndsWith(col_lower, "_key")

\* lines 128, 134-140
is_key_like(col_name) ==
    LET col_lower == Lower(col_name)
    IN  \/ EndsWith(col_lower, "_id")
        \/ col_lower = "id"
        \/ EndsWith(col_lower, "id")
        \/ EndsWith(col_lower, "_key")
        \/ EndsWith(col_lower, "_code")

Col(name, dtype, nunique) == [name |-> name, dtype |-> dtype, nunique |-> nunique]

\* the column metadata lists the files of files_info are drawn from
ColumnsP == << Col("id", "numeric", 2), Col("UID", "categorical", 1),
               Col("name", "categorical", 2), Col("key", "numeric", 2) >>

ColumnsQ == << Col("id", "numeric", 2), Col("z_code", "numeric", 1),
               Col("name", "categorical", 1), Col("key", "numeric", 1) >>

ColumnsR == << Col("UID", "categorical", 3), Col("z_code", "numeric", 2),
               Col("name", "categorical", 2) >>

ColumnsS == << Col("id", "categorical", 1), Col("a_key", "numeric", 1),
               Col("name", "categorical", 2) >>

FileIds == {"a", "b", "c"}

FilePool ==
    { [csv_file_id |-> id, filename |-> id \o ".csv", columns |-> cols] :
        id \in FileIds, cols \in {ColumnsP, ColumnsQ, ColumnsR, ColumnsS} }

\* {c["name"]: c for c in f["columns"]}: the last column of a name wins
ColsByName(f) ==
    [name \in {f.columns[k].name : k \in DOMAIN f.columns} |->
        f.columns[CHOOSE k \in DOMAIN f.columns :
                    /\ f.columns[k].name = name
                    /\ \A m \in DOMAIN f.columns : f.columns[m].name = name => m <= k]]

\* tuple(sorted([(id1, col), (id2, col)])): the pair without its order
PairKey(id1, id2, col_name) == {<<id1, col_name>>, <<id2, col_name>>}

Relationship(fk_file, pk_file, col_name, confidence) ==
    [from_csv |-> fk_file.csv_file_id, from_column |-> col_name,
     to_csv |-> pk_file.csv_file_id, to_column |-> col_name,
     confidence |-> confidence,
     reason |-> <<col_name, fk_file.filename, pk_file.filename>>]

\* lines 125-173 for one common column name; confidence is held in tenths
DetectColumn(f1, f2, col_name, st) ==
    LET c1 == ColsByName(f1)[col_name]
        c2 == ColsByName(f2)[col_name]
        u1 == c1.nunique
        u2 == c2.nunique
        pair_key == PairKey(f1.csv_file_id, f2.csv_file_id, col_name)
        pk_file == IF u1 >= u2 THEN f1 ELSE f2
        fk_file == IF u1 >= u2 THEN f2 ELSE f1
        confidence == IF is_key_like(col_name) THEN 9 ELSE 5
    IN  IF c1.dtype # c2.dtype THEN st
        ELSE IF ~is_key_like(col_name) THEN st
        ELSE IF pair_key \in st.seen THEN st
        ELSE [seen |-> st.seen \cup {pair_key},
              relationships |-> Append(st.relationships,
                                   Relationship(fk_file, pk_file, col_name, confidence))]

RECURSIVE DetectColumns(_, _, _, _)
DetectColumns(f1, f2, order, st) ==
    IF order = <<>> THEN st
    ELSE DetectColumns(f1, f2, Tail(order), DetectColumn(f1, f2, Head(order), st))

\* the orders in which a Python set of names may be iterated
Orders(S) ==
    {o \in [1..Cardinality(S) -> S] : \A m, n \in 1..Cardinality(S) : m # n => o[m] # o[n]}

\* the pairs (i, j), i < j, in the order of the two enumerate loops
RECURSIVE PairsFrom(_, _, _)
PairsFrom(i, j, n) ==
    IF i >= n THEN <<>>
    ELSE IF j > n THEN PairsFrom(i + 1, i + 2, n)
    ELSE <<<<i, j>>>> \o PairsFrom(i, j + 1, n)

\* relationships.sort(key=lambda r: -r["confidence"]): a stable insertion sort
RECURSIVE SortByConfidence(_)
SortByConfidence(rels) ==
    IF rels = <<>> THEN <<>>
    ELSE LET rest == SortByConfidence(SubSeq(rels, 1, Len(rels) - 1))
             r    == rels[Len(rels)]
             ahead == SelectSeq(rest, LAMBDA q : q.confidence >= r.confidence)
             after == SelectSeq(rest, LAMBDA q : q.confidence < r.confidence)
         IN  ahead \o <<r>> \o after

\* the names of common that pass the two tests of lines 131-143
Eligible(f1, f2) ==
    {name \in DOMAIN ColsByName(f1) \cap DOMAIN ColsByName(f2) :
        /\ ColsByName(f1)[name].dtype = ColsByName(f2)[name].dtype
        /\ is_key_like(name)}

\* lines 113-177: every list the call may return, one per iteration order of the
\* sets of common names.  A name failing the tests of lines 131-143 is skipped
\* wherever it comes in the iteration, so the orders of the passing names are
\* the orders that tell the outcomes apart.
RECURSIVE DetectPairs(_, _, _)
DetectPairs(fi, pairs, st) ==
    IF pairs = <<>> THEN {SortByConfidence(st.relationships)}
    ELSE LET f1 == fi[Head(pairs)[1]]
             f2 == fi[Head(pairs)[2]]
         IN  UNION { DetectPairs(fi, Tail(pairs), DetectColumns(f1, f2, o, st)) :
                        o \in Orders(Eligible(f1, f2)) }

auto_detect_relationships(fi) ==
    DetectPairs(fi, PairsFrom(1, 2, Len(fi)), [seen |-> {}, relationships |-> <<>>])

Reversed(seq) == [i \in DOMAIN seq |-> seq[Len(seq) + 1 - i]]

\* the call on files_info
Detect ==
    /\ pc = "detect"
    /\ detected' \in auto_detect_relationships(files_info)
    /\ pc' = IF Len(files_info) = 2 THEN "detect_reversed" ELSE "done"
    /\ UNCHANGED <<files_info, detected_rev>>
    /\ UNCHANGED <<how, log, result, error, column_mappings, relVars, flatVars, classifyVars, cleanVars, keyVars, reqVars, sessVars>>

\* the call on the same two files listed in the opposite order
DetectReversed ==
    /\ pc = "detect_reversed"
    /\ detected_rev' \in auto_detect_relationships(Reversed(files_info))
    /\ pc' = "done"
    /\ UNCHANGED <<files_info, detected>>
    /\ UNCHANGED <<how, log, result, error, column_mappings, relVars, flatVars, classifyVars, cleanVars, keyVars, reqVars, sessVars>>

IdleMerge ==
    /\ how = "inner" /\ log = <<>> /\ result = NoTable /\ error = NoError
    /\ column_mappings = <<>> /\ IdleRel /\ IdleFlat

InitDetect ==
    /\ pc = "detect"
    /\ files_info \in UNION {[1..n -> FilePool] : n \in 2..MaxFiles}
    /\ detected = <<>> /\ detected_rev = <<>>
    /\ IdleMerge /\ IdleClassify /\ IdleClean /\ IdleKeys /\ IdleRequests

NextDetect == Detect \/ DetectReversed

SpecDetect == InitDetect /\ [][NextDetect]_vars

(***************************************************************************)
(* classify_columns                                                        *)
(*                                                                         *)
(* Here a table maps each column name to [dtype, cells]; dtype is the      *)
(* pandas dtype ("object" for strings, "int64", "datetime64") and cells    *)
(* the column's cells.  A datetime is held as its day number.  Of the      *)
(* metadata, mean and std (floating point) are left out.                   *)
(***************************************************************************)
CATEGORICAL_UNIQUE_RATIO_TENTHS == 3

CATEGORICAL_MAX_UNIQUE == 30

TOP_N_CATEGORIES == 15

DATETIME_RATIO_TENTHS == 7

\* what pd.to_datetime(format="mixed", dayfirst=False) makes of a string; a
\* string outside DateOf and NaTStrings makes it raise ValueError
DateOf ==
    ("2020-01-01" :> 1) @@ ("01/01/2020" :> 1) @@ ("2020-01-02" :> 2) @@
    ("2020-01-03" :> 3) @@ ("2020-01-04" :> 4) @@ ("2020-01-05" :> 5) @@
    ("2020-01-06" :> 6) @@ ("2020-01-07" :> 7) @@ ("2020" :> 1)

NaTStrings == {"NaT"}

\* series.dropna()
dropna(cells) == SelectSeq(cells, LAMBDA c : c # {})

Values(series) == UNION Range(series)

\* series.nunique()
nunique(series) == Cardinality(Values(series))

MinOf(S) == CHOOSE m \in S : \A v \in S : m <= v

MaxOf(S) == CHOOSE m \in S : \A v \in S : m >= v

\* pd.to_datetime(series, dayfirst=False, format="mixed") on a string series
\* without missing cells: raises on a string it cannot parse
to_datetime(series) ==
    IF \E v \in Values(series) : v \notin DOMAIN DateOf \cup NaTStrings
    THEN [ok |-> FALSE, parsed |-> <<>>]
    ELSE [ok |-> TRUE,
          parsed |-> [i \in DOMAIN series |->
                        IF series[i] \subseteq NaTStrings THEN {}
                        ELSE {DateOf[CHOOSE v \in series[i] : TRUE]}]]

\* df[col] = parsed: parsed is aligned on the index of the non-missing cells
AssignParsed(cells, parsed) ==
    [i \in DOMAIN cells |->
        IF cells[i] = {} THEN {}
        ELSE parsed[Cardinality({j \in 1..i : cells[j] # {}})]]

\* series.value_counts(): each value with its count and the cell it is first
\* met in
value_counts(series) ==
    {<<v, Cardinality({i \in DOMAIN series : series[i] = {v}}),
          MinOf({i \in DOMAIN series : series[i] = {v}})>> : v \in Values(series)}

\* series.value_counts().head(TOP_N_CATEGORIES).to_dict(): by count, the value
\* met first ahead among equal counts
top_values(series) ==
    LET counts   == value_counts(series)
        ahead(p) == {q \in counts : q[2] > p[2] \/ (q[2] = p[2] /\ q[3] < p[3])}
        top      == {p \in counts : Cardinality(ahead(p)) < TOP_N_CATEGORIES}
    IN  [v \in {p[1] : p \in top} |-> (CHOOSE p \in top : p[1] = v)[2]]

\* the low-cardinality test with 30 distinct values already too many
LowCardinality_below_max(n_unique, n) ==
    /\ n_unique < CATEGORICAL_MAX_UNIQUE
    /\ 10 * n_unique < CATEGORICAL_UNIQUE_RATIO_TENTHS * n

\* line 43: nunique <= CATEGORICAL_MAX_UNIQUE and ratio < CATEGORICAL_UNIQUE_RATIO
LowCardinality(n_unique, n) ==
    /\ n_unique <= CATEGORICAL_MAX_UNIQUE
    /\ 10 * n_unique < CATEGORICAL_UNIQUE_RATIO_TENTHS * n

\* line 31: parsed.notna().sum() > len(series) * 0.7
ParsedEnough(parsed, series) ==
    10 * Len(dropna(parsed)) > DATETIME_RATIO_TENTHS * Len(series)

AsFloat(v) == <<"float", v>>

AsStr(v) == <<"str", v>>

\* lines 22-56 for one column: its metadata and the column as the call leaves it
ClassifyColumn(column) ==
    LET series == dropna(column.cells)
        dt     == to_datetime(series)
    IN  IF series = <<>>
        THEN [meta |-> [dtype |-> "empty", nunique |-> 0], column |-> column]
        ELSE IF column.dtype = "object" /\ dt.ok /\ ParsedEnough(dt.parsed, series)
        THEN [meta |-> [dtype |-> "datetime", nunique |-> nunique(series),
                        min |-> AsStr(MinOf(Values(dt.parsed))),
                        max |-> AsStr(MaxOf(Values(dt.parsed)))],
              column |-> [dtype |-> "datetime64",
                          cells |-> AssignParsed(column.cells, dt.parsed)]]
        ELSE IF column.dtype = "int64"
        THEN IF LowCardinality(nunique(series), Len(series))
             THEN [meta |-> [dtype |-> "categorical", nunique |-> nunique(series),
                             top_values |-> top_values(series)],
                   column |-> column]
             ELSE [meta |-> [dtype |-> "numeric", nunique |-> nunique(series),
                             min |-> AsFloat(MinOf(Values(series))),
                             max |-> AsFloat(MaxOf(Values(series)))],
                   column |-> column]
        ELSE IF column.dtype = "datetime64"
        THEN [meta |-> [dtype |-> "datetime", nunique |-> nunique(series),
                        min |-> AsStr(MinOf(Values(series))),
                        max |-> AsStr(MaxOf(Values(series)))],
              column |-> column]
        ELSE [meta |-> [dtype |-> "categorical", nunique |-> nunique(series),
                        top_values |-> top_values(series)],
              column |-> column]

\* lines 18-57
classify_columns(t) == [col \in DOMAIN t |-> ClassifyColumn(t[col]).meta]

TableAfterClassify(t) == [col \in DOMAIN t |-> ClassifyColumn(t[col]).column]

Strs(seq) == [dtype |-> "object", cells |-> [i \in DOMAIN seq |-> {seq[i]}]]

\* an int64 column of n cells over d distinct values
Ints(d, n) == [dtype |-> "int64", cells |-> [i \in 1..n |-> {((i - 1) % d) + 1}]]

WithMissing(column) == [column EXCEPT !.cells = <<{}>> \o @ \o <<{}>>]

AllMissing == [dtype |-> "object", cells |-> <<{}, {}>>]

\* the columns the tables given to classify_columns are drawn from
ColumnPool ==
    { Strs(<<"2020-01-01", "2020-01-02", "2020-01-03">>),
      Strs(<<"2020-01-01", "01/01/2020", "2020-01-02">>),
      Strs(<<"2020-01-01", "2020-01-02", "2020-01-03", "2020-01-04", "abc">>),
      Strs(<<"2020-01-01", "2020-01-02", "2020-01-03", "2020-01-04", "NaT">>),
      Strs(<<"2020-01-01", "2020-01-02", "2020-01-03", "2020-01-04", "2020-01-05",
             "2020-01-06", "2020-01-07", "NaT", "NaT", "NaT">>),
      Strs(<<"abc", "2020-01-01", "xyz", "abc">>),
      WithMissing(Strs(<<"2020-01-03", "2020-01-01">>)),
      AllMissing,
      Ints(1, 1),
      Ints(3, 10),
      Ints(3, 11),
      WithMissing(Ints(2, 7)),
      Ints(16, 60),
      Ints(30, 100),
      Ints(30, 101),
      Ints(31, 104) }

ColumnNames == <<"c1", "c2", "c3", "c4">>

\* the first call
Classify ==
    /\ pc = "classify"
    /\ meta' = classify_columns(df)
    /\ df' = TableAfterClassify(df)
    /\ pc' = "classify_again"
    /\ UNCHANGED <<df_in, meta2>>
    /\ UNCHANGED <<how, log, result, error, column_mappings, relVars, flatVars, detectVars, cleanVars, keyVars, reqVars, sessVars>>

\* the second call, on the table as the first one left it
ClassifyAgain ==
    /\ pc = "classify_again"
    /\ meta2' = classify_columns(df)
    /\ df' = TableAfterClassify(df)
    /\ pc' = "done"
    /\ UNCHANGED <<df_in, meta>>
    /\ UNCHANGED <<how, log, result, error, column_mappings, relVars, flatVars, detectVars, cleanVars, keyVars, reqVars, sessVars>>

InitClassify ==
    /\ pc = "classify"
    /\ \E n \in 1..MaxColumns :
          df_in \in [{ColumnNames[k] : k \in 1..n} -> ColumnPool]
    /\ df = df_in
    /\ meta = EmptyMap /\ meta2 = EmptyMap
    /\ IdleMerge /\ IdleDetect /\ IdleClean /\ IdleKeys /\ IdleRequests

NextClassify == Classify \/ ClassifyAgain

SpecClassify == InitClassify /\ [][NextClassify]_vars

(***************************************************************************)
(* clean_dataframe                                                         *)
(*                                                                         *)
(* Here a table is [cols, dtypes, rows]: dtypes[k] is the pandas dtype of  *)
(* column k ("number" for int64/float64, which select_dtypes(include=      *)
(* "number") takes alike, "object", "datetime64").  A value is tagged with *)
(* its type: Str(s), Num(n, d) (the fraction n/d in lowest terms),         *)
(* Date(k) (day k of January 2020), ZVal (a z-score, kept unevaluated      *)
(* because the standard deviation is a square root).  A log entry keeps    *)
(* the numbers its detail text is formatted from.                          *)
(***************************************************************************)
IQR_FACTOR_HALVES == 3

ZSCORE_THRESHOLD == 3

DATE_RATIO_TENTHS == 6

CATEGORICAL_FILL == "Unknown"

Str(s) == <<"str", s>>

Date(k) == <<"date", k>>

Abs(x) == IF x < 0 THEN -x ELSE x

RECURSIVE Gcd(_, _)
Gcd(a, b) == IF b = 0 THEN a ELSE Gcd(b, a % b)

\* the fraction n/d, d > 0, in lowest terms
Num(n, d) == LET g == Gcd(Abs(n), d) IN <<"num", n \div g, d \div g>>

Whole(n) == Num(n, 1)

Add(a, b) == Num(a[2] * b[3] + b[2] * a[3], a[3] * b[3])

Sub(a, b) == Num(a[2] * b[3] - b[2] * a[3], a[3] * b[3])

Mul(a, b) == Num(a[2] * b[2], a[3] * b[3])

\* a / b, b # 0
Div(a, b) ==
    IF b[2] > 0 THEN Num(a[2] * b[3], a[3] * b[2]) ELSE Num(-(a[2] * b[3]), a[3] * (-b[2]))

Less(a, b) == a[2] * b[3] < b[2] * a[3]

\* (x - mean) / std with std = sqrt(variance)
ZVal(x, mean, variance) == <<"z", Sub(x, mean), variance>>

CleanTable(cols, dtypes, rows) == [cols |-> cols, dtypes |-> dtypes, rows |-> rows]

\* df[col] as the sequence of its cells
Column(t, col) ==
    LET k == IndexOf(t.cols, col) IN [i \in DOMAIN t.rows |-> t.rows[i][k]]

\* df[col] = cells (of dtype dtype)
SetColumn(t, col, dtype, cells) ==
    LET k == IndexOf(t.cols, col)
    IN  [t EXCEPT !.dtypes[k] = dtype,
                  !.rows = [i \in DOMAIN t.rows |-> [t.rows[i] EXCEPT ![k] = cells[i]]]]

DtypeOf(t, col) == t.dtypes[IndexOf(t.cols, col)]

\* the values of the non-missing cells, in row order
NonMissingValues(cells) ==
    LET present == SelectSeq(cells, LAMBDA c : c # {})
    IN  [i \in DOMAIN present |-> CHOOSE v \in present[i] : TRUE]

\* isna().sum()
isna_sum(cells) == Len(SelectSeq(cells, LAMBDA c : c = {}))

\* the rows at the positions keep holds for, in order
RECURSIVE RowsWhere(_, _)
RowsWhere(rows, keep) ==
    IF rows = <<>> THEN <<>>
    ELSE (IF keep[1] THEN <<Head(rows)>> ELSE <<>>)
            \o RowsWhere(Tail(rows), Tail(keep))

\* df.dropna(subset=[col], inplace=True)
\* dropna that leaves the table as it is
dropna_subset_kept(t, col) == t

dropna_subset(t, col) ==
    LET cells == Column(t, col)
    IN  [t EXCEPT !.rows = RowsWhere(t.rows, [i \in DOMAIN cells |-> cells[i] # {}])]

\* df.drop_duplicates(subset=subset, inplace=True): the first of equal rows
\* stays; subset = <<>> stands for None, the full row
drop_duplicates(t, subset) ==
    LET ks == IF subset = <<>> THEN DOMAIN t.cols
              ELSE {IndexOf(t.cols, subset[m]) : m \in DOMAIN subset}
        key(i) == [k \in ks |-> t.rows[i][k]]
    IN  [t EXCEPT !.rows = RowsWhere(t.rows,
            [i \in DOMAIN t.rows |-> \A j \in 1..(i - 1) : key(j) # key(i)])]

(***************************************************************************)
(* Strings.                                                                *)
(***************************************************************************)
UpperMap ==
    [c \in {SubSeq(LowerLetters, i, i) : i \in 1..Len(LowerLetters)} |->
        LET i == CHOOSE i \in 1..Len(LowerLetters) : SubSeq(LowerLetters, i, i) = c
        IN  SubSeq(UpperLetters, i, i)]

IsLetter(c) == c \in DOMAIN LowerMap \/ c \in DOMAIN UpperMap

\* str.title(): a letter is upper-cased after a non-letter, lower-cased after
\* a letter
RECURSIVE TitleFrom(_, _)
TitleFrom(str, i) ==
    IF i > Len(str) THEN ""
    ELSE LET c == SubSeq(str, i, i)
             starts == i = 1 \/ ~IsLetter(SubSeq(str, i - 1, i - 1))
         IN  (IF starts /\ c \in DOMAIN UpperMap THEN UpperMap[c]
              ELSE IF ~starts THEN LowerChar(c) ELSE c) \o TitleFrom(str, i + 1)

Title(str) == TitleFrom(str, 1)

\* str.strip()
RECURSIVE Strip(_)
Strip(str) ==
    IF str = "" THEN ""
    ELSE IF SubSeq(str, 1, 1) = " " THEN Strip(SubSeq(str, 2, Len(str)))
    ELSE IF SubSeq(str, Len(str), Len(str)) = " " THEN Strip(SubSeq(str, 1, Len(str) - 1))
    ELSE str

\* astype(str).str.strip().str.title() of a cell of a string column: a missing
\* cell reads "nan" as an object (pandas < 3) and stays missing as a str
\* (pandas 3, the copy-on-write build)
TitleCell(c, cow) ==
    IF c = {} THEN (IF cow THEN {} ELSE {Str(Title(Strip("nan")))})
    ELSE {Str(Title(Strip((CHOOSE v \in c : TRUE)[2])))}

\* strftime(date_format) of day k
strftime(k, date_format) ==
    IF date_format = "%Y-%m-%d" THEN "2020-01-0" \o ToString(k)
    ELSE IF date_format = "%Y" THEN "2020"
    ELSE date_format

(***************************************************************************)
(* Statistics of a sequence of numbers (the non-missing values).           *)
(***************************************************************************)
RECURSIVE Sum(_)
Sum(vals) == IF vals = <<>> THEN Whole(0) ELSE Add(Head(vals), Sum(Tail(vals)))

\* mean(); vals # <<>>
Mean(vals) == Div(Sum(vals), Whole(Len(vals)))

\* sort_values()
Sorted(vals) ==
    LET pos(i) == Cardinality({j \in DOMAIN vals : Less(vals[j], vals[i])})
                  + Cardinality({j \in 1..(i - 1) : vals[j] = vals[i]}) + 1
    IN  [p \in DOMAIN vals |-> vals[CHOOSE i \in DOMAIN vals : pos(i) = p]]

\* quantile(num / den), linear interpolation; vals # <<>>
Quantile(vals, num, den) ==
    LET s    == Sorted(vals)
        h    == (Len(vals) - 1) * num
        lo   == (h \div den) + 1
        frac == Num(h % den, den)
    IN  IF h % den = 0 THEN s[lo]
        ELSE Add(s[lo], Mul(frac, Sub(s[lo + 1], s[lo])))

\* median()
Median(vals) == Quantile(vals, 1, 2)

\* var() with ddof = 1; Len(vals) >= 2
Variance(vals) ==
    LET m == Mean(vals)
        sq == [i \in DOMAIN vals |-> Mul(Sub(vals[i], m), Sub(vals[i], m))]
    IN  Div(Sum(sq), Whole(Len(vals) - 1))

MinNum(vals) == CHOOSE m \in Range(vals) : \A v \in Range(vals) : ~Less(v, m)

MaxNum(vals) == CHOOSE m \in Range(vals) : \A v \in Range(vals) : ~Less(m, v)

\* a clip that caps nothing above
Clip_lower_only(c, lower, upper) ==
    IF c = {} THEN {}
    ELSE LET v == CHOOSE x \in c : TRUE
         IN  IF Less(v, lower) THEN {lower} ELSE {v}

\* clip(lower, upper) of a cell
Clip(c, lower, upper) ==
    IF c = {} THEN {}
    ELSE LET v == CHOOSE x \in c : TRUE
         IN  IF Less(v, lower) THEN {lower} ELSE IF Less(upper, v) THEN {upper} ELSE {v}

(***************************************************************************)
(* The stages of clean_dataframe.  A stage takes and returns st = [df,     *)
(* log] (the classification also the column lists); opts is the record of  *)
(* keyword arguments, dedup_subset = <<>> and date_format = "" standing    *)
(* for None.                                                               *)
(***************************************************************************)
LogEntry(action, column, detail) == [action |-> action, column |-> column, detail |-> detail]

\* the entry put in front of the log instead of at its end
Logged_in_front(st, action, column, detail) ==
    [st EXCEPT !.log = <<LogEntry(action, column, detail)>> \o @]

\* log.append({...})
Logged(st, action, column, detail) ==
    [st EXCEPT !.log = Append(@, LogEntry(action, column, detail))]

\* line 45: df.columns = df.columns.str.strip()
StripColumns(t) == [t EXCEPT !.cols = [k \in DOMAIN t.cols |-> Strip(t.cols[k])]]

\* line 48: df.select_dtypes(include="number").columns.tolist()
NumericColumns(t) ==
    LET ks == SelectSeq([k \in DOMAIN t.cols |-> k], LAMBDA k : t.dtypes[k] = "number")
    IN  [m \in DOMAIN ks |-> t.cols[ks[m]]]

\* line 62: pd.to_datetime(s, format="mixed", dayfirst=False) raises on a
\* value it cannot parse
DateParseRaises(vals) ==
    \E i \in DOMAIN vals : vals[i][2] \notin DOMAIN DateOf \cup NaTStrings

\* line 63: parsed.notna().sum()
ValidDates(vals) == Len(SelectSeq(vals, LAMBDA v : v[2] \in DOMAIN DateOf))

\* line 64: pd.to_datetime(df[col], format="mixed", errors="coerce")
CoerceDate(c) ==
    IF c = {} THEN {}
    ELSE LET s == (CHOOSE v \in c : TRUE)[2]
         IN  IF s \in DOMAIN DateOf THEN {Date(DateOf[s])} ELSE {}

\* lines 52-71 for one column
ClassifyOne(st, col) ==
    LET cells == Column(st.df, col)
        s == NonMissingValues(cells)
    IN  IF col \in Range(st.numeric_cols) THEN st
        ELSE IF s = <<>> THEN [st EXCEPT !.cat_cols = Append(@, col)]
        ELSE IF /\ DtypeOf(st.df, col) = "object"
                /\ ~DateParseRaises(s)
                /\ 10 * ValidDates(s) > DATE_RATIO_TENTHS * Len(s)
        THEN Logged([st EXCEPT
                        !.df = SetColumn(@, col, "datetime64",
                                         [i \in DOMAIN cells |-> CoerceDate(cells[i])]),
                        !.date_cols = Append(@, col)],
                    "parse_date", col, [valid |-> ValidDates(s), total |-> Len(s)])
        ELSE [st EXCEPT !.cat_cols = Append(@, col)]

RECURSIVE ClassifyEach(_, _)
ClassifyEach(st, cols) ==
    IF cols = <<>> THEN st ELSE ClassifyEach(ClassifyOne(st, Head(cols)), Tail(cols))

\* lines 39-71: the copy, the stripped names and the three column lists
ClassifyStage(t) ==
    LET copy == StripColumns(t)
    IN  ClassifyEach([df |-> copy, log |-> <<>>, numeric_cols |-> NumericColumns(copy),
                      cat_cols |-> <<>>, date_cols |-> <<>>],
                     copy.cols)

\* df[col].fillna(value, inplace=True): with copy-on-write the call works on a
\* temporary and df stays as it is; a NaN value ({}) fills nothing
fillna_inplace(t, col, value, cow) ==
    IF cow THEN t
    ELSE LET cells == Column(t, col)
         IN  SetColumn(t, col, DtypeOf(t, col),
                       [i \in DOMAIN cells |-> IF cells[i] = {} THEN value ELSE cells[i]])

\* lines 75-91 for one numeric column
MissingNumericOne(st, col, opts, cow) ==
    LET cells == Column(st.df, col)
        vals == NonMissingValues(cells)
        n_missing == isna_sum(cells)
        mean == IF vals = <<>> THEN {} ELSE {Mean(vals)}
        median == IF vals = <<>> THEN {} ELSE {Median(vals)}
    IN  IF n_missing = 0 THEN st
        ELSE IF opts.numeric_strategy = "mean"
        THEN Logged([st EXCEPT !.df = fillna_inplace(@, col, mean, cow)],
                    "impute_mean", col, [n_missing |-> n_missing, fill_val |-> mean])
        ELSE IF opts.numeric_strategy = "median"
        THEN Logged([st EXCEPT !.df = fillna_inplace(@, col, median, cow)],
                    "impute_median", col, [n_missing |-> n_missing, fill_val |-> median])
        ELSE IF opts.numeric_strategy = "drop"
        THEN Logged([st EXCEPT !.df = dropna_subset(@, col)],
                    "drop_missing", col, [n_missing |-> n_missing])
        ELSE st

\* lines 94-99 for one categorical column
MissingCategoricalOne(st, col, opts, cow) ==
    LET n_missing == isna_sum(Column(st.df, col))
    IN  IF n_missing = 0 THEN st
        ELSE Logged([st EXCEPT !.df = fillna_inplace(@, col, {Str(opts.categorical_fill)}, cow)],
                    "fill_categorical", col,
                    [n_missing |-> n_missing, fill |-> opts.categorical_fill])

\* lines 102-106 for one datetime column
MissingDateOne(st, col, opts, cow) ==
    LET n_missing == isna_sum(Column(st.df, col))
    IN  IF n_missing > 0
        THEN Logged([st EXCEPT !.df = dropna_subset(@, col)],
                    "drop_missing_dates", col, [n_missing |-> n_missing])
        ELSE st

\* lines 109-115
DuplicatesStage(st, opts) ==
    LET after == drop_duplicates(st.df, opts.dedup_subset)
        n_dupes == Len(st.df.rows) - Len(after.rows)
    IN  IF n_dupes # 0
        THEN Logged([st EXCEPT !.df = after], "remove_duplicates", "",
                    [n_dupes |-> n_dupes, key |-> opts.dedup_subset])
        ELSE [st EXCEPT !.df = after]

\* nunique() of a column
NUnique(cells) == Cardinality(Range(NonMissingValues(cells)))

\* lines 119-125 for one categorical column
StandardiseOne(st, col, opts, cow) ==
    LET cells == Column(st.df, col)
        titled == [i \in DOMAIN cells |-> TitleCell(cells[i], cow)]
        before_nunique == NUnique(cells)
        after_nunique == NUnique(titled)
        set == [st EXCEPT !.df = SetColumn(@, col, "object", titled)]
    IN  IF DtypeOf(st.df, col) # "object" THEN st
        ELSE IF after_nunique < before_nunique
        THEN Logged(set, "standardise_categorical", col,
                    [before |-> before_nunique, after |-> after_nunique])
        ELSE set

\* lines 129-135 for one datetime column
FormatDateOne(st, col, opts, cow) ==
    LET cells == Column(st.df, col)
        formatted == [i \in DOMAIN cells |->
                        IF cells[i] = {} THEN {}
                        ELSE {Str(strftime((CHOOSE v \in cells[i] : TRUE)[2],
                                           opts.date_format))}]
    IN  IF opts.date_format # ""
        THEN Logged([st EXCEPT !.df = SetColumn(@, col, "object", formatted)],
                    "format_date", col, [date_format |-> opts.date_format])
        ELSE st

\* lines 140-151 for one numeric column
CapIqrOne(st, col, opts, cow) ==
    LET cells == Column(st.df, col)
        vals == NonMissingValues(cells)
        q1 == Quantile(vals, 1, 4)
        q3 == Quantile(vals, 3, 4)
        iqr == Sub(q3, q1)
        lower == Sub(q1, Mul(Num(IQR_FACTOR_HALVES, 2), iqr))
        upper == Add(q3, Mul(Num(IQR_FACTOR_HALVES, 2), iqr))
        n_outliers == Len(SelectSeq(vals, LAMBDA v : Less(v, lower) \/ Less(upper, v)))
    IN  IF vals = <<>> THEN st        \* quantiles are NaN: no comparison holds
        ELSE IF iqr = Whole(0) THEN st
        ELSE IF n_outliers # 0
        THEN Logged([st EXCEPT !.df = SetColumn(@, col, "number",
                                    [i \in DOMAIN cells |-> Clip(cells[i], lower, upper)])],
                    "cap_outliers_iqr", col,
                    [n_outliers |-> n_outliers, lower |-> lower, upper |-> upper])
        ELSE st

\* |x - mean| / std > ZSCORE_THRESHOLD, decided on the squares
ZScoreOutlier(v, mean, variance) ==
    Less(Mul(Whole(ZSCORE_THRESHOLD * ZSCORE_THRESHOLD), variance),
         Mul(Sub(v, mean), Sub(v, mean)))

\* clip(mean - 3 * std, mean + 3 * std) of a cell; the bound a value is
\* capped to is kept unevaluated
ClipZ(c, mean, variance) ==
    IF c = {} THEN {}
    ELSE LET v == CHOOSE x \in c : TRUE
         IN  IF ~ZScoreOutlier(v, mean, variance) THEN {v}
             ELSE {<<"zbound", Less(v, mean), mean, variance>>}

\* lines 154-165 for one numeric column
CapZscoreOne(st, col, opts, cow) ==
    LET cells == Column(st.df, col)
        vals == NonMissingValues(cells)
        mean == Mean(vals)
        variance == Variance(vals)
        n_outliers == Len(SelectSeq(vals, LAMBDA v : ZScoreOutlier(v, mean, variance)))
    IN  IF Len(vals) < 2 THEN st      \* std is NaN: no comparison holds
        ELSE IF variance = Whole(0) THEN st
        ELSE IF n_outliers # 0
        THEN Logged([st EXCEPT !.df = SetColumn(@, col, "number",
                                    [i \in DOMAIN cells |-> ClipZ(cells[i], mean, variance)])],
                    "cap_outliers_zscore", col, [n_outliers |-> n_outliers])
        ELSE st

AllMissingCells(cells) == [i \in DOMAIN cells |-> {}]

\* lines 170-175 for one numeric column
MinMaxOne(st, col, opts, cow) ==
    LET cells == Column(st.df, col)
        vals == NonMissingValues(cells)
        mn == MinNum(vals)
        mx == MaxNum(vals)
        scaled == [i \in DOMAIN cells |->
                     IF cells[i] = {} THEN {}
                     ELSE {Div(Sub(CHOOSE v \in cells[i] : TRUE, mn), Sub(mx, mn))}]
    IN  IF vals = <<>>                \* mn, mx are NaN: NaN == 0 is false
        THEN Logged([st EXCEPT !.df = SetColumn(@, col, "number", AllMissingCells(cells))],
                    "normalize_minmax", col, [mn |-> {}, mx |-> {}])
        ELSE IF Sub(mx, mn) = Whole(0) THEN st
        ELSE Logged([st EXCEPT !.df = SetColumn(@, col, "number", scaled)],
                    "normalize_minmax", col, [mn |-> {mn}, mx |-> {mx}])

\* lines 178-184 for one numeric column
NormalizeZscoreOne(st, col, opts, cow) ==
    LET cells == Column(st.df, col)
        vals == NonMissingValues(cells)
        mean == Mean(vals)
        variance == Variance(vals)
        scored == [i \in DOMAIN cells |->
                     IF cells[i] = {} THEN {}
                     ELSE {ZVal(CHOOSE v \in cells[i] : TRUE, mean, variance)}]
    IN  IF Len(vals) < 2              \* std is NaN: NaN == 0 is false
        THEN Logged([st EXCEPT !.df = SetColumn(@, col, "number", AllMissingCells(cells))],
                    "normalize_zscore", col,
                    [mean |-> IF vals = <<>> THEN {} ELSE {mean}, variance |-> {}])
        ELSE IF variance = Whole(0) THEN st
        ELSE Logged([st EXCEPT !.df = SetColumn(@, col, "number", scored)],
                    "normalize_zscore", col, [mean |-> {mean}, variance |-> {variance}])

\* the body of one of the per-column loops
LoopBody(loop, st, col, opts, cow) ==
    CASE loop = "missing_numeric" -> MissingNumericOne(st, col, opts, cow)
      [] loop = "missing_categorical" -> MissingCategoricalOne(st, col, opts, cow)
      [] loop = "missing_date" -> MissingDateOne(st, col, opts, cow)
      [] loop = "standardise" -> StandardiseOne(st, col, opts, cow)
      [] loop = "format_date" -> FormatDateOne(st, col, opts, cow)
      [] loop = "cap_iqr" -> CapIqrOne(st, col, opts, cow)
      [] loop = "cap_zscore" -> CapZscoreOne(st, col, opts, cow)
      [] loop = "minmax" -> MinMaxOne(st, col, opts, cow)
      [] loop = "normalize_zscore" -> NormalizeZscoreOne(st, col, opts, cow)

\* for col in cols: the body of the loop
RECURSIVE ForEachColumn(_, _, _, _, _)
ForEachColumn(loop, st, cols, opts, cow) ==
    IF cols = <<>> THEN st
    ELSE ForEachColumn(loop, LoopBody(loop, st, Head(cols), opts, cow), Tail(cols), opts, cow)

\* lines 74-106: numeric, then categorical, then datetime columns
MissingStage(st, numeric, cat, date, opts, cow) ==
    ForEachColumn("missing_date",
        ForEachColumn("missing_categorical",
            ForEachColumn("missing_numeric", st, numeric, opts, cow),
            cat, opts, cow),
        date, opts, cow)

\* lines 118-125
CategoricalsStage(st, cat, opts, cow) == ForEachColumn("standardise", st, cat, opts, cow)

\* lines 128-135
DatesStage(st, date, opts, cow) == ForEachColumn("format_date", st, date, opts, cow)

\* lines 138-165
OutliersStage(st, numeric, opts, cow) ==
    IF opts.outlier_method = "iqr" THEN ForEachColumn("cap_iqr", st, numeric, opts, cow)
    ELSE IF opts.outlier_method = "zscore"
    THEN ForEachColumn("cap_zscore", st, numeric, opts, cow)
    ELSE st

\* lines 168-184
NormalizeStage(st, numeric, opts, cow) ==
    IF opts.normalize = "minmax" THEN ForEachColumn("minmax", st, numeric, opts, cow)
    ELSE IF opts.normalize = "zscore"
    THEN ForEachColumn("normalize_zscore", st, numeric, opts, cow)
    ELSE st

\* lines 187-193
SummaryStage(st, rows0, cols0) ==
    Logged(st, "summary", "",
           [original_rows |-> rows0, original_cols |-> cols0,
            rows |-> Len(st.df.rows), cols |-> Len(st.df.cols),
            rows_removed |-> rows0 - Len(st.df.rows)])

(***************************************************************************)
(* The tables and keyword arguments clean_dataframe is called with.        *)
(***************************************************************************)
N(v) == {Whole(v)}

S(str) == {Str(str)}

NaN == {}

CleanTables ==
    { CleanTable(<<"amount">>, <<"number">>,
                 << <<N(1)>>, <<N(2)>>, <<N(3)>>, <<N(4)>>, <<N(100)>> >>),
      CleanTable(<<"name", "amount">>, <<"object", "number">>,
                 << <<S("alice"), N(1)>>, <<S("Alice"), N(1)>>,
                    <<S(" bob"), N(2)>>, <<NaN, NaN>> >>),
      CleanTable(<<"when", "amount">>, <<"object", "number">>,
                 << <<S("2020-01-01"), N(5)>>, <<S("2020-01-02"), NaN>>,
                    <<S("NaT"), N(7)>>, <<S("2020-01-02"), N(5)>> >>),
      CleanTable(<<"amount">>, <<"number">>, << <<NaN>>, <<NaN>> >>),
      CleanTable(<<"amount">>, <<"number">>, << <<N(5)>> >>),
      CleanTable(<<"name">>, <<"object">>, << <<S("alice")>>, <<S("bob")>> >>),
      CleanTable(<<"amount", "name">>, <<"number", "object">>, <<>>),
      CleanTable(<<" id", "name ">>, <<"number", "object">>,
                 << <<N(1), S("Bob")>>, <<N(2), S("Bob")>>, <<N(4), S("Eve")>> >>),
      CleanTable(<<"name", "amount">>, <<"object", "number">>,
                 << <<NaN, N(0)>>, <<NaN, N(1)>> >>),
      CleanTable(<<"amount", "score">>, <<"number", "number">>,
                 << <<N(1), NaN>>, <<NaN, N(2)>>, <<N(3), N(4)>>, <<N(3), N(4)>> >>),
      CleanTable(<<"when", "name">>, <<"object", "object">>,
                 << <<S("2020-01-01"), S("x")>>, <<S("01/01/2020"), S("x")>>,
                    <<S("2020-01-03"), S("abc")>> >>) }

OptionChoices ==
    [numeric_strategy : {"mean", "median", "drop", "none"},
     categorical_fill : {CATEGORICAL_FILL},
     dedup_subset : {<<>>, <<"name">>},
     outlier_method : {"iqr", "zscore", "none"},
     normalize : {"none", "minmax", "zscore"},
     date_format : {"", "%Y-%m-%d", "%Y"}]

(***************************************************************************)
(* clean_dataframe, stage by stage.                                        *)
(***************************************************************************)
notCleanVars == <<how, result, error, column_mappings, relVars, flatVars, detectVars,
                  classifyVars, keyVars, reqVars, sessVars>>

Working == [df |-> clean_df, log |-> log]

\* lines 39-71
CleanClassify ==
    /\ pc = "clean_classify"
    /\ LET st == ClassifyStage(clean_arg)
       IN  /\ clean_df' = st.df
           /\ log' = st.log
           /\ numeric_cols' = st.numeric_cols
           /\ cat_cols' = st.cat_cols
           /\ date_cols' = st.date_cols
    /\ original_rows' = Len(clean_arg.rows)
    /\ original_cols' = Len(clean_arg.cols)
    /\ pc' = "clean_missing"
    /\ UNCHANGED <<clean_arg, options, copy_on_write, run>>
    /\ UNCHANGED notCleanVars

\* the stage leaves the locals but df and log as they are
StageDone(st, next) ==
    /\ clean_df' = st.df
    /\ log' = st.log
    /\ pc' = next
    /\ UNCHANGED <<clean_arg, options, copy_on_write, numeric_cols, cat_cols, date_cols,
                   original_rows, original_cols, run>>

\* lines 74-106
CleanMissing ==
    /\ pc = "clean_missing"
    /\ StageDone(MissingStage(Working, numeric_cols, cat_cols, date_cols, options,
                              copy_on_write),
                 "clean_duplicates")
    /\ UNCHANGED notCleanVars

\* lines 109-115; a dedup_subset naming no column of df makes
\* drop_duplicates raise KeyError
CleanDuplicates ==
    /\ pc = "clean_duplicates"
    /\ IF Range(options.dedup_subset) \subseteq Range(clean_df.cols)
       THEN /\ StageDone(DuplicatesStage(Working, options), "clean_categoricals")
            /\ UNCHANGED error
       ELSE /\ pc' = "error"
            /\ error' = [kind |-> "KeyError", table |-> "",
                         missing |-> options.dedup_subset, available |-> clean_df.cols]
            /\ UNCHANGED <<log, cleanVars>>
    /\ UNCHANGED <<how, result, column_mappings, relVars, flatVars, detectVars, classifyVars, keyVars, reqVars, sessVars>>

\* lines 118-125
CleanCategoricals ==
    /\ pc = "clean_categoricals"
    /\ StageDone(CategoricalsStage(Working, cat_cols, options, copy_on_write), "clean_dates")
    /\ UNCHANGED notCleanVars

\* lines 128-135
CleanDates ==
    /\ pc = "clean_dates"
    /\ StageDone(DatesStage(Working, date_cols, options, copy_on_write), "clean_outliers")
    /\ UNCHANGED notCleanVars

\* lines 138-165
CleanOutliers ==
    /\ pc = "clean_outliers"
    /\ StageDone(OutliersStage(Working, numeric_cols, options, copy_on_write),
                 "clean_normalize")
    /\ UNCHANGED notCleanVars

\* lines 168-184
CleanNormalize ==
    /\ pc = "clean_normalize"
    /\ StageDone(NormalizeStage(Working, numeric_cols, options, copy_on_write),
                 "clean_summary")
    /\ UNCHANGED notCleanVars

\* lines 187-194: the summary entry and the return of (df, log)
CleanSummary ==
    /\ pc = "clean_summary"
    /\ StageDone(SummaryStage(Working, original_rows, original_cols), "done")
    /\ UNCHANGED notCleanVars

\* a z-score is held unevaluated: a table holding one is not cleaned again
HoldsZScore(t) ==
    \E i \in DOMAIN t.rows : \E k \in DOMAIN t.cols :
        \E v \in t.rows[i][k] : v[1] \in {"z", "zbound"}

\* the caller cleans the returned table again, with the same keyword arguments
CleanAgain ==
    /\ pc = "done"
    /\ run < MaxRuns
    /\ ~HoldsZScore(clean_df)
    /\ clean_arg' = clean_df
    /\ run' = run + 1
    /\ pc' = "clean_classify"
    /\ log' = <<>>
    /\ clean_df' = EmptyMap
    /\ numeric_cols' = <<>> /\ cat_cols' = <<>> /\ date_cols' = <<>>
    /\ original_rows' = 0 /\ original_cols' = 0
    /\ UNCHANGED <<options, copy_on_write>>
    /\ UNCHANGED notCleanVars

InitClean ==
    /\ pc = "clean_classify"
    /\ clean_arg \in CleanTables
    /\ options \in OptionChoices
    /\ copy_on_write \in BOOLEAN
    /\ run = 1
    /\ log = <<>>
    /\ clean_df = EmptyMap
    /\ numeric_cols = <<>> /\ cat_cols = <<>> /\ date_cols = <<>>
    /\ original_rows = 0 /\ original_cols = 0
    /\ how = "inner" /\ result = NoTable /\ error = NoError /\ column_mappings = <<>>
    /\ IdleRel /\ IdleFlat /\ IdleDetect /\ IdleClassify /\ IdleKeys /\ IdleRequests

NextClean ==
    \/ CleanClassify \/ CleanMissing \/ CleanDuplicates \/ CleanCategoricals
    \/ CleanDates \/ CleanOutliers \/ CleanNormalize \/ CleanSummary \/ CleanAgain

SpecClean == InitClean /\ [][NextClean]_vars

(***************************************************************************)
(* detect_candidate_keys                                                   *)
(***************************************************************************)
\* pd.api.types.is_numeric_dtype
is_numeric_dtype(dtype) == dtype \in {"int64", "float64"}

\* lines 61-69: the name test, on col.lower().strip()
is_id_col(col) ==
    LET col_lower == Strip(Lower(col))
    IN  \/ EndsWith(col_lower, "_id")
        \/ col_lower = "id"
        \/ EndsWith(col_lower, "id")
        \/ EndsWith(col_lower, "_key")

\* ratio >= 0.95 in the place of ratio > 0.95
IsPrimaryRatio_at_least(n_unique, n) == 100 * n_unique >= 95 * n

\* line 72: ratio > 0.95, with ratio = nunique / n
IsPrimaryRatio(n_unique, n) == 100 * n_unique > 95 * n

\* line 89: ratio > 0.9
IsHighRatio(n_unique, n) == 10 * n_unique > 9 * n

\* round(scale * a / b), a half going to the even neighbour
Rounded(scale, a, b) ==
    LET q == (scale * a) \div b
        r == (scale * a) % b
    IN  IF 2 * r > b THEN q + 1
        ELSE IF 2 * r = b THEN q + (q % 2)
        ELSE q

\* the dict appended to candidates; uniqueness in ten-thousandths, the
\* percentage of the reason as a number
Candidate(col, key_type, reason, n_unique, n) ==
    [column |-> col, key_type |-> key_type,
     reason |-> <<reason, Rounded(100, n_unique, n)>>,
     uniqueness |-> Rounded(10000, n_unique, n)]

\* lines 55-95: what one pass of the column loop appends
KeyCandidates(column, n) ==
    LET s == dropna(column.cells)
        n_unique == nunique(s)
    IN  IF s = <<>> THEN <<>>
        ELSE IF is_id_col(column.name) /\ is_numeric_dtype(column.dtype)
        THEN IF IsPrimaryRatio(n_unique, n)
             THEN <<Candidate(column.name, "primary", "Numeric ID column", n_unique, n)>>
             ELSE <<Candidate(column.name, "candidate", "Numeric ID column (FK?)",
                              n_unique, n)>>
        ELSE IF IsHighRatio(n_unique, n) /\ is_numeric_dtype(column.dtype)
        THEN <<Candidate(column.name, "candidate", "High-uniqueness numeric", n_unique, n)>>
        ELSE <<>>

\* len(df)
RowCount(t) == IF t = <<>> THEN 0 ELSE Len(t[1].cells)

\* the number of rows of the tables given to detect_candidate_keys
KeyRowCounts == {0, 1, 20}

\* a float64 column of n cells: n - 1 distinct values and one missing cell
OneMissing(n) ==
    [dtype |-> "float64", cells |-> [i \in 1..n |-> IF i = n THEN {} ELSE {i}]]

\* a float64 column of n missing cells
MissingColumn(n) == [dtype |-> "float64", cells |-> [i \in 1..n |-> {}]]

\* a string column of n distinct values
DistinctStrs(n) == [dtype |-> "object", cells |-> [i \in 1..n |-> {ToString(i)}]]

\* the columns of n rows
KeyShapes(n) ==
    {Ints(d, n) : d \in {n, n - 1, n - 2, 1} \cap (1..n)}
        \cup (IF n >= 2 THEN {OneMissing(n)} ELSE {})
        \cup (IF n = 0 THEN {Ints(1, 0)} ELSE {})
        \cup {MissingColumn(n), DistinctStrs(n)}

KeyNames == {"id", "user_id", " Order_Key ", "paid", "amount"}

\* lines 49-52
KeysStart ==
    /\ pc = "keys"
    /\ candidates' = <<>>
    /\ IF RowCount(key_df) = 0
       THEN pc' = "done" /\ col_i' = 0
       ELSE pc' = "keys_loop" /\ col_i' = 1
    /\ UNCHANGED <<key_df, how, log, result, error, column_mappings, relVars, flatVars,
                   detectVars, classifyVars, cleanVars, reqVars, sessVars>>

\* lines 54-95: one pass of the column loop
KeysColumn ==
    /\ pc = "keys_loop"
    /\ col_i <= Len(key_df)
    /\ candidates' = candidates \o KeyCandidates(key_df[col_i], RowCount(key_df))
    /\ col_i' = col_i + 1
    /\ UNCHANGED <<pc, key_df, how, log, result, error, column_mappings, relVars, flatVars,
                   detectVars, classifyVars, cleanVars, reqVars, sessVars>>

\* line 97
KeysReturn ==
    /\ pc = "keys_loop"
    /\ col_i > Len(key_df)
    /\ pc' = "done"
    /\ UNCHANGED <<key_df, candidates, col_i, how, log, result, error, column_mappings,
                   relVars, flatVars, detectVars, classifyVars, cleanVars, reqVars, sessVars>>

InitKeys ==
    /\ pc = "keys"
    /\ \E n \in KeyRowCounts, k \in 1..MaxColumns :
          \E names \in [1..k -> KeyNames], shapes \in [1..k -> KeyShapes(n)] :
              /\ \A i, j \in 1..k : i # j => names[i] # names[j]
              /\ key_df = [i \in 1..k |-> [name |-> names[i], dtype |-> shapes[i].dtype,
                                           cells |-> shapes[i].cells]]
    /\ candidates = <<>> /\ col_i = 0
    /\ IdleMerge /\ IdleDetect /\ IdleClassify /\ IdleClean /\ IdleRequests

NextKeys == KeysStart \/ KeysColumn \/ KeysReturn

SpecKeys == InitKeys /\ [][NextKeys]_vars

(***************************************************************************)
(* Both merge functions: a call of merge_by_relationships or of            *)
(* merge_dataframes on the arguments of the state.                         *)
(***************************************************************************)
InitMerge == InitRel \/ InitFlat

NextMerge == NextRel \/ NextFlat

SpecMerge == InitMerge /\ [][NextMerge]_vars

(***************************************************************************)
(* main: the upload, summary, clean and merge requests of one dashboard.   *)
(* A stored file is a table of one column k; cleaning and merging run the  *)
(* steps of clean_dataframe and merge_dataframes.                          *)
(***************************************************************************)
\* a file of r rows with the same key
KeyRows(r) == MkTable(<<"k">>, [i \in 1..r |-> <<1>>])

\* the files clients upload
UploadPool == {KeyRows(1), KeyRows(max_rows - 1), KeyRows(max_rows), KeyRows(max_rows + 1)}

\* pd.read_csv of a stored file, as clean_dataframe takes it
read_csv(t) ==
    CleanTable(t.cols, [k \in DOMAIN t.cols |-> "number"],
               [i \in DOMAIN t.rows |->
                   [k \in DOMAIN t.cols |-> {Whole(v) : v \in t.rows[i][k]}]])

\* cleaned_df.to_csv: the stored file again
to_csv(c) ==
    [cols |-> c.cols,
     rows |-> [i \in DOMAIN c.rows |->
                  [k \in DOMAIN c.cols |->
                      {IF v[3] = 1 THEN v[2] ELSE <<v[2], v[3]>> : v \in c.rows[i][k]}]]]

Op(op, rows) == [op |-> op, rows |-> rows]

\* main.py lines 362-365: the keyword arguments when the body names none
DefaultOptions ==
    [numeric_strategy |-> "median", categorical_fill |-> CATEGORICAL_FILL,
     dedup_subset |-> <<>>, outlier_method |-> "iqr", normalize |-> "none",
     date_format |-> ""]

MergeIdleNext ==
    /\ how' = "inner" /\ log' = <<>> /\ result' = NoTable /\ error' = NoError
    /\ column_mappings' = <<>> /\ dfs' = <<>> /\ merge_keys' = <<>>
    /\ mapped_dfs' = <<>> /\ next_i' = 0

CleanIdleNext ==
    /\ clean_arg' = EmptyMap /\ options' = EmptyMap /\ clean_df' = EmptyMap
    /\ numeric_cols' = <<>> /\ cat_cols' = <<>> /\ date_cols' = <<>>
    /\ original_rows' = 0 /\ original_cols' = 0 /\ run' = 0 /\ log' = <<>>

\* upload_csv, main.py lines 87-112, with analyze_csv lines 330-337
UploadCsv ==
    /\ pc = "serving"
    /\ Len(csv_files) < MaxStored
    /\ \E t \in UploadPool :
          IF Len(t.rows) > max_rows
          THEN /\ status' = 422
               /\ performed' = <<>>
               /\ UNCHANGED csv_files
          ELSE /\ status' = 200
               /\ performed' = <<Op("classify", Len(t.rows))>>
               /\ csv_files' = Append(csv_files, t)
    /\ UNCHANGED <<pc, request, how, log, result, error, column_mappings, relVars, flatVars,
                   detectVars, classifyVars, cleanVars, keyVars, sessVars>>

\* get_summary, main.py lines 212-215
GetSummary ==
    /\ pc = "serving"
    /\ csv_files # <<>>
    /\ performed' = [i \in DOMAIN csv_files |-> Op("classify", Len(csv_files[i].rows))]
    /\ status' = 200
    /\ UNCHANGED <<pc, request, csv_files, how, log, result, error, column_mappings, relVars,
                   flatVars, detectVars, classifyVars, cleanVars, keyVars, sessVars>>

\* clean_csv_endpoint, main.py lines 357-375: up to the call of clean_dataframe
CleanRequest ==
    /\ pc = "serving"
    /\ \E i \in DOMAIN csv_files :
          /\ request' = <<"clean", i>>
          /\ clean_arg' = read_csv(csv_files[i])
    /\ options' = DefaultOptions
    /\ run' = 1
    /\ log' = <<>>
    /\ performed' = <<>>
    /\ pc' = "clean_classify"
    /\ UNCHANGED <<csv_files, status, copy_on_write, clean_df, numeric_cols, cat_cols,
                   date_cols, original_rows, original_cols>>
    /\ UNCHANGED <<how, result, error, column_mappings, relVars, flatVars, detectVars,
                   classifyVars, keyVars, sessVars>>

\* clean_csv_endpoint, main.py lines 376-389: the cleaned file saved back
CleanRespond ==
    /\ pc = "done"
    /\ request[1] = "clean"
    /\ csv_files' = [csv_files EXCEPT ![request[2]] = to_csv(clean_df)]
    /\ performed' = <<Op("clean", original_rows)>>
    /\ status' = 200
    /\ request' = NoRequest
    /\ pc' = "serving"
    /\ CleanIdleNext
    /\ UNCHANGED <<copy_on_write, how, result, error, column_mappings, relVars, flatVars,
                   detectVars, classifyVars, keyVars, sessVars>>

\* merge_csvs, main.py lines 505-528: up to the call of merge_dataframes
MergeRequest ==
    /\ pc = "serving"
    /\ Len(csv_files) < MaxStored
    /\ \E h \in HowChoices, keys \in {<<>>, <<"k">>} :
          IF Len(csv_files) < 2 \/ keys = <<>>
          THEN /\ status' = 400
               /\ performed' = <<>>
               /\ UNCHANGED <<pc, request, how, dfs, merge_keys>>
          ELSE /\ how' = h
               /\ dfs' = csv_files
               /\ merge_keys' = keys
               /\ request' = <<"merge", 0>>
               /\ performed' = <<>>
               /\ pc' = "start"
               /\ UNCHANGED status
    /\ UNCHANGED <<csv_files, log, result, error, column_mappings, mapped_dfs, next_i,
                   relVars, detectVars, classifyVars, cleanVars, keyVars, sessVars>>

\* merge_csvs, main.py lines 532-578: the merged table saved, classified and
\* registered as a file of the dashboard, then analysed (an error of the
\* analysis is swallowed)
MergeRespond ==
    /\ pc = "done"
    /\ request[1] = "merge"
    /\ csv_files' = Append(csv_files, result)
    /\ performed' = [i \in DOMAIN dfs |-> Op("join", Len(dfs[i].rows))]
                        \o <<Op("classify", Len(result.rows))>>
                        \o (IF Len(result.rows) > max_rows THEN <<>>
                            ELSE <<Op("classify", Len(result.rows))>>)
    /\ status' = 200
    /\ request' = NoRequest
    /\ pc' = "serving"
    /\ MergeIdleNext
    /\ UNCHANGED <<relVars, detectVars, classifyVars, cleanVars, keyVars, sessVars>>

\* merge_csvs, main.py lines 529-530
MergeFailed ==
    /\ pc = "error"
    /\ request[1] = "merge"
    /\ performed' = [i \in 1..(IF next_i > 2 THEN next_i - 1 ELSE 0) |->
                        Op("join", Len(dfs[i].rows))]
    /\ status' = 422
    /\ request' = NoRequest
    /\ pc' = "serving"
    /\ MergeIdleNext
    /\ UNCHANGED <<csv_files, relVars, detectVars, classifyVars, cleanVars, keyVars, sessVars>>

InitRequests ==
    /\ pc = "serving"
    /\ IdleRequests
    /\ copy_on_write \in BOOLEAN
    /\ clean_arg = EmptyMap /\ options = EmptyMap /\ clean_df = EmptyMap
    /\ numeric_cols = <<>> /\ cat_cols = <<>> /\ date_cols = <<>>
    /\ original_rows = 0 /\ original_cols = 0 /\ run = 0
    /\ IdleMerge /\ IdleDetect /\ IdleClassify /\ IdleKeys

NextRequests ==
    \/ UploadCsv \/ GetSummary
    \/ CleanRequest \/ CleanClassify \/ CleanMissing \/ CleanDuplicates \/ CleanCategoricals
    \/ CleanDates \/ CleanOutliers \/ CleanNormalize \/ CleanSummary \/ CleanRespond
    \/ MergeRequest \/ FlatStart \/ FlatJoin \/ FlatFinish \/ MergeRespond \/ MergeFailed

SpecRequests == InitRequests /\ [][NextRequests]_vars

(***************************************************************************)
(* The requests of several sessions (main.py over database.py).  The rows  *)
(* of the dashboards and merge_sessions tables are numbered in order of    *)
(* creation; a deleted row keeps its number and is no longer live.         *)
(***************************************************************************)
SessionIds == {"s" \o ToString(i) : i \in 1..MaxSessions}

\* the session_id cookie of a request: none, or any identifier
Cookies == {""} \cup SessionIds

\* database.py lines 88-99: the identifiers get_or_create_session may return
get_or_create_session(cookie) ==
    IF cookie # "" /\ cookie \in sessions THEN {cookie} ELSE SessionIds \ sessions

\* database.py lines 172-180: a row found by id AND session_id
get_dashboard(dashboard_id, sid) ==
    /\ dashboard_id \in DOMAIN dashboards
    /\ dashboards[dashboard_id].live
    /\ dashboards[dashboard_id].session_id = sid

\* database.py lines 335-345: a row found by id alone
get_merge_session(merge_id) ==
    merge_id \in DOMAIN merge_sessions /\ merge_sessions[merge_id].live

\* the session owning the dashboard a request names ("" when there is none)
DashboardOwner(dashboard_id) ==
    IF dashboard_id \in DOMAIN dashboards /\ dashboards[dashboard_id].live
    THEN dashboards[dashboard_id].session_id ELSE ""

MergeOwner(merge_id) ==
    IF get_merge_session(merge_id)
    THEN DashboardOwner(merge_sessions[merge_id].dashboard_id) ELSE ""

Response(sid, endpoint, owner, st, data_of) ==
    [sid |-> sid, endpoint |-> endpoint, owner |-> owner, status |-> st, data_of |-> data_of]

sessFrame ==
    <<pc, how, log, result, error, column_mappings, relVars, flatVars, detectVars,
      classifyVars, cleanVars, keyVars, reqVars>>

\* main.py lines 58-131: every upload creates a dashboard of the session
upload_csv ==
    /\ pc = "serving"
    /\ \E cookie \in Cookies, n_files \in 0..MaxFiles :
       \E sid \in get_or_create_session(cookie) :
          /\ sessions' = sessions \cup {sid}
          /\ IF n_files = 0
             THEN /\ served' = Response(sid, "upload", "", 400, {})
                  /\ UNCHANGED dashboards
             ELSE /\ Len(dashboards) < MaxDashboards
                  /\ dashboards' = Append(dashboards,
                        [session_id |-> sid, n_csv |-> n_files, live |-> TRUE])
                  /\ served' = Response(sid, "upload", "", 200, {Len(dashboards) + 1})
    /\ UNCHANGED merge_sessions
    /\ UNCHANGED sessFrame

\* main.py lines 142-148
api_get_dashboard ==
    /\ pc = "serving"
    /\ \E cookie \in Cookies, dashboard_id \in 1..MaxDashboards :
       \E sid \in get_or_create_session(cookie) :
          /\ sessions' = sessions \cup {sid}
          /\ served' = IF get_dashboard(dashboard_id, sid)
                       THEN Response(sid, "dashboard", DashboardOwner(dashboard_id), 200,
                                     {dashboard_id})
                       ELSE Response(sid, "dashboard", DashboardOwner(dashboard_id), 404, {})
    /\ UNCHANGED <<dashboards, merge_sessions>>
    /\ UNCHANGED sessFrame

\* main.py lines 152-162 and database.py lines 203-212; the rows of the
\* dashboard in merge_sessions go with it (ON DELETE CASCADE)
delete_dashboard ==
    /\ pc = "serving"
    /\ \E cookie \in Cookies, dashboard_id \in 1..MaxDashboards :
       \E sid \in get_or_create_session(cookie) :
          /\ sessions' = sessions \cup {sid}
          /\ IF get_dashboard(dashboard_id, sid)
             THEN /\ dashboards' = [dashboards EXCEPT ![dashboard_id].live = FALSE]
                  /\ merge_sessions' =
                        [m \in DOMAIN merge_sessions |->
                            IF merge_sessions[m].dashboard_id = dashboard_id
                            THEN [merge_sessions[m] EXCEPT !.live = FALSE]
                            ELSE merge_sessions[m]]
                  /\ served' = Response(sid, "delete", sid, 200, {dashboard_id})
             ELSE /\ served' = Response(sid, "delete", DashboardOwner(dashboard_id), 404, {})
                  /\ UNCHANGED <<dashboards, merge_sessions>>
    /\ UNCHANGED sessFrame

\* main.py lines 498-578: the merge of the dashboard's files, stored as a
\* merge session and as one more file of the dashboard
merge_csvs ==
    /\ pc = "serving"
    /\ \E cookie \in Cookies, dashboard_id \in 1..MaxDashboards,
          keys_given \in BOOLEAN, merged \in BOOLEAN :
       \E sid \in get_or_create_session(cookie) :
          /\ sessions' = sessions \cup {sid}
          /\ LET owner == DashboardOwner(dashboard_id)
             IN  IF ~get_dashboard(dashboard_id, sid)
                 THEN /\ served' = Response(sid, "merge", owner, 404, {})
                      /\ UNCHANGED <<dashboards, merge_sessions>>
                 ELSE IF dashboards[dashboard_id].n_csv < 2 \/ ~keys_given
                 THEN /\ served' = Response(sid, "merge", owner, 400, {})
                      /\ UNCHANGED <<dashboards, merge_sessions>>
                 ELSE IF ~merged
                 THEN /\ served' = Response(sid, "merge", owner, 422, {})
                      /\ UNCHANGED <<dashboards, merge_sessions>>
                 ELSE /\ Len(merge_sessions) < MaxMerges
                      /\ merge_sessions' = Append(merge_sessions,
                            [dashboard_id |-> dashboard_id, live |-> TRUE])
                      /\ dashboards' = [dashboards EXCEPT ![dashboard_id].n_csv = @ + 1]
                      /\ served' = Response(sid, "merge", owner, 200, {dashboard_id})
    /\ UNCHANGED sessFrame

\* main.py lines 582-588
get_merges ==
    /\ pc = "serving"
    /\ \E cookie \in Cookies, dashboard_id \in 1..MaxDashboards :
       \E sid \in get_or_create_session(cookie) :
          /\ sessions' = sessions \cup {sid}
          /\ served' = IF get_dashboard(dashboard_id, sid)
                       THEN Response(sid, "merges", DashboardOwner(dashboard_id), 200,
                                     {dashboard_id})
                       ELSE Response(sid, "merges", DashboardOwner(dashboard_id), 404, {})
    /\ UNCHANGED <<dashboards, merge_sessions>>
    /\ UNCHANGED sessFrame

\* main.py lines 592-612: the merge session is looked up by its id alone
add_chart_from_merge ==
    /\ pc = "serving"
    /\ \E cookie \in Cookies, merge_id \in 1..MaxMerges,
          col_x_given \in BOOLEAN, chart_built \in BOOLEAN :
       \E sid \in get_or_create_session(cookie) :
          /\ sessions' = sessions \cup {sid}
          /\ LET owner == MergeOwner(merge_id)
             IN  served' =
                    IF ~get_merge_session(merge_id)
                    THEN Response(sid, "merge_chart", owner, 404, {})
                    ELSE IF ~col_x_given
                    THEN Response(sid, "merge_chart", owner, 400, {})
                    ELSE IF ~chart_built
                    THEN Response(sid, "merge_chart", owner, 422, {})
                    ELSE Response(sid, "merge_chart", owner, 200,
                                  {merge_sessions[merge_id].dashboard_id})
    /\ UNCHANGED <<dashboards, merge_sessions>>
    /\ UNCHANGED sessFrame

\* main.py lines 616-625: no session is looked up; the merged file is on disk
\* as long as its dashboard is
export_merged_csv ==
    /\ pc = "serving"
    /\ \E cookie \in Cookies, merge_id \in 1..MaxMerges :
          LET sid == IF cookie \in sessions THEN cookie ELSE ""
          IN  served' =
                 IF ~get_merge_session(merge_id)
                 THEN Response(sid, "merge_export", MergeOwner(merge_id), 404, {})
                 ELSE Response(sid, "merge_export", MergeOwner(merge_id), 200,
                               {merge_sessions[merge_id].dashboard_id})
    /\ UNCHANGED <<sessions, dashboards, merge_sessions>>
    /\ UNCHANGED sessFrame

InitSessions ==
    /\ pc = "serving"
    /\ IdleSessions /\ IdleDashboard
    /\ copy_on_write = FALSE
    /\ clean_arg = EmptyMap /\ options = EmptyMap /\ clean_df = EmptyMap
    /\ numeric_cols = <<>> /\ cat_cols = <<>> /\ date_cols = <<>>
    /\ original_rows = 0 /\ original_cols = 0 /\ run = 0
    /\ IdleMerge /\ IdleDetect /\ IdleClassify /\ IdleKeys

NextSessions ==
    \/ upload_csv \/ api_get_dashboard \/ delete_dashboard \/ merge_csvs
    \/ get_merges \/ add_chart_from_merge \/ export_merged_csv

SpecSessions == InitSessions /\ [][NextSessions]_vars

(***************************************************************************)
(* Properties of merge_by_relationships (SpecRel).                         *)
(***************************************************************************)
LastLog == log[Len(log)]

WarningFor(cid) == \E n \in DOMAIN log : log[n] = Entry("warning", <<cid>>)

\* the tables of dfs_map that no edge links to another table
UnlinkedTables ==
    {t \in DOMAIN dfs_map :
        \A n \in DOMAIN relationships :
            LET r == relationships[n]
            IN  (r.from_csv = t \/ r.to_csv = t) => r.from_csv = r.to_csv}

\* the inputs of C1: the first edge links two tables of dfs_map, every edge
\* names tables of dfs_map only, and exactly one table (the third) is unlinked
ThirdTableUnlinked ==
    /\ relationships # <<>>
    /\ how \in VALID_JOIN_TYPES
    /\ relationships[1].from_csv # relationships[1].to_csv
    /\ \A n \in DOMAIN relationships :
          {relationships[n].from_csv, relationships[n].to_csv} \subseteq DOMAIN dfs_map
    /\ Cardinality(UnlinkedTables) = 1

ThirdAdded ==
    (pc = "done" /\ ThirdTableUnlinked)
        => \A t \in UnlinkedTables : t \in merged_ids /\ WarningFor(t)

ThirdRowCount ==
    \A t \in UnlinkedTables :
        (ThirdTableUnlinked /\ t \notin merged_ids /\ t \in merged_ids')
            => Len(result'.rows) = Len(result.rows) * Len(mapped[t].rows)

\* C1: in a relationship-mode merge of three tables whose third table no edge
\* links to the first two, the third table ends up in the result, added by the
\* cross-join fallback with a warning entry, and the row count right after
\* that step is rows(merged so far) x rows(third table).
C1_ThirdTableCrossJoined == []ThirdAdded /\ [][ThirdRowCount]_vars

\* C2: the while loop makes at most 2 x edge_count + 5 passes, whatever the
\* relationship list (cycles, duplicates, self-edges, unreachable tables).
C2_PassesBounded == iteration <= 2 * Len(relationships) + 5

\* the bound is what ended the loop: edges remain after 2 x edge_count + 5 passes
C2_BoundHit ==
    pc = "done" /\ remaining # <<>> /\ iteration = 2 * Len(relationships) + 5

\* a pass changed the result without logging a keyed join
FallbackStep ==
    /\ pc = "loop" /\ pc' = "loop"
    /\ result' # result
    /\ ~(Len(log') = Len(log) + 1 /\ log'[Len(log')].action = "merge")

WarningAppended ==
    Len(log') > Len(log) /\ \E n \in (Len(log) + 1)..Len(log') : log'[n].action = "warning"

\* C3: a cross join happens only in a pass in which no remaining edge has
\* exactly one endpoint merged while edges remain; it adds exactly one table,
\* unmerged until then, and appends exactly one warning entry naming it.
C3_FallbackOnlyWithoutProgress ==
    [][(FallbackStep \/ WarningAppended) =>
          /\ \A n \in DOMAIN remaining : ~Straddles(remaining[n], merged_ids)
          /\ remaining' # <<>>
          /\ \E cid \in DOMAIN mapped \ merged_ids :
                /\ merged_ids' = merged_ids \cup {cid}
                /\ log' = Append(log, Entry("warning", <<cid>>))
                /\ result' = PdCrossMerge(result, mapped[cid]).df]_vars

\* a fallback has just run after an earlier keyed join
C3_FallbackRan ==
    /\ pc = "loop" /\ log # <<>> /\ LastLog.action = "warning"
    /\ \E n \in DOMAIN log : log[n].action = "merge"

SeedOnly ==
    \/ merged_ids = {} /\ result = NoTable
    \/ /\ merged_ids = {relationships[1].from_csv}
       /\ result = mapped[relationships[1].from_csv]

\* C5: whenever an edge names a table or column that does not exist, the error
\* is raised with the result still the unjoined seed table and the merged set
\* holding the seed only.
C5_ValidatedBeforeAnyJoin ==
    (pc = "error" /\ error.kind \in {"ColumnNotFound", "KeyError"}) => SeedOnly

OneEndMerged(rel) == (rel.from_csv \in merged_ids) # (rel.to_csv \in merged_ids)

BothEndsMerged(rel) == rel.from_csv \in merged_ids /\ rel.to_csv \in merged_ids

HasJoinable == \E k \in DOMAIN remaining : OneEndMerged(remaining[k])

\* the position in remaining of the earliest edge with exactly one endpoint merged
EarliestJoinable ==
    CHOOSE k \in DOMAIN remaining :
        OneEndMerged(remaining[k]) /\ \A j \in 1..(k - 1) : ~OneEndMerged(remaining[j])

\* remaining without the edge at position upto and without the edges before it
\* that have both endpoints merged
KeptAfterScan(upto) ==
    LET kept == SelectSeq([j \in DOMAIN remaining |-> j],
                          LAMBDA j : j # upto /\ ~(j < upto /\ BothEndsMerged(remaining[j])))
    IN  [n \in DOMAIN kept |-> remaining[kept[n]]]

KeyedJoinStep ==
    pc = "loop" /\ Len(log') = Len(log) + 1 /\ log'[Len(log')].action = "merge"

SeedIsFirstFrom ==
    (RelStart /\ pc' = "loop") =>
        /\ merged_ids' = {relationships[1].from_csv}
        /\ result' = mapped'[relationships[1].from_csv]
        /\ remaining' = relationships

EarliestJoinableConsumed ==
    (RelPass /\ HasJoinable) =>
        \/ pc' = "error" /\ merged_ids' = merged_ids
        \/ LET rel     == remaining[EarliestJoinable]
               fromIn  == rel.from_csv \in merged_ids
               joining == IF fromIn THEN rel.to_csv ELSE rel.from_csv
               entry   == log'[Len(log')]
           IN  /\ KeyedJoinStep
               /\ remaining' = KeptAfterScan(EarliestJoinable)
               /\ merged_ids' = merged_ids \cup {joining}
               /\ entry.detail[1] = joining
               /\ entry.detail[3] = (IF fromIn THEN rel.from_column ELSE rel.to_column)
               /\ entry.detail[4] = (IF fromIn THEN rel.to_column ELSE rel.from_column)

\* a pass that finds no joinable edge drops the edges with both endpoints merged
\* and keeps the others, in order, for the next pass
SkippedEdgesKept ==
    (RelPass /\ ~HasJoinable) =>
        /\ ~KeyedJoinStep
        /\ remaining' = KeptAfterScan(Len(remaining) + 1)

\* C25: the seed is the from-table of the first edge; every pass of the loop
\* scans the remaining list from its top and joins on the earliest edge with
\* exactly one endpoint merged, removing the edges with both endpoints merged
\* it passes without a join and keeping the edges with neither endpoint merged
\* for later passes.
C25_EarliestEdgeEachPass ==
    [][SeedIsFirstFrom /\ EarliestJoinableConsumed /\ SkippedEdgesKept]_vars

\* a-b was skipped in the first pass (neither end merged) and joined in the second
C25_SkippedEdgeJoinedLater ==
    /\ pc = "done"
    /\ relationships = <<Edge("c", "b_id", "c", "b_id"), Edge("a", "id", "b", "a_id"),
                         Edge("c", "b_id", "b", "id")>>
    /\ merged_ids = {"a", "b", "c"}
    /\ remaining = <<>>
    /\ \E i, j \in DOMAIN log : i < j /\ log[i].action = "merge" /\ log[i].detail[1] = "b"
                                   /\ log[j].action = "merge" /\ log[j].detail[1] = "a"

NamedTables == {relationships[k].from_csv : k \in DOMAIN relationships}
                  \cup {relationships[k].to_csv : k \in DOMAIN relationships}

AllNamedPresent == relationships # <<>> /\ NamedTables \subseteq DOMAIN dfs_map

\* the positions of the log whose entry brings table cid into the result
IncorporatedAt(cid) ==
    {n \in DOMAIN log : log[n].action \in {"start", "merge", "warning"}
                           /\ log[n].detail[1] = cid}

\* C26: when every table named by an edge is in the table map and the call
\* returns, no edge is left, the loop stopped below its iteration bound, and
\* every named table was brought into the result by exactly one log entry (the
\* seed by the start entry only).
C26_AllEdgesProcessed ==
    (pc = "done" /\ AllNamedPresent) =>
        /\ remaining = <<>>
        /\ iteration < max_iter
        /\ merged_ids = NamedTables
        /\ \A cid \in NamedTables : Cardinality(IncorporatedAt(cid)) = 1
        /\ \A cid \in DOMAIN dfs_map \ NamedTables : IncorporatedAt(cid) = {}
        /\ \A n \in IncorporatedAt(relationships[1].from_csv) : log[n].action = "start"

\* three tables in two components: the third came in by the cross-join fallback
C26_TwoComponentsReturned ==
    /\ pc = "done"
    /\ AllNamedPresent
    /\ NamedTables = {"a", "b", "c"}
    /\ \E n \in DOMAIN log : log[n].action = "warning"
    /\ \E n \in DOMAIN log : log[n].action = "merge"

\* the name under which column col of the merged table cid stands in result:
\* a join that found the name taken stored it with the suffix of its table
StoredName(cid, col) ==
    LET suffixed == col \o "_" \o Prefix8(cid)
    IN  IF suffixed \in Range(result.cols) THEN suffixed ELSE col

\* C27: a keyed join of merge_by_relationships takes as key, on the result's
\* side, the column that came from the merged table its edge names, also when
\* that column stands in the result under a suffixed name.
C27_KeyFromNamedTable ==
    [][(RelPass /\ KeyedJoinStep) =>
          LET rel       == remaining[EarliestJoinable]
              fromIn    == rel.from_csv \in merged_ids
              named     == IF fromIn THEN rel.from_csv ELSE rel.to_csv
              joining   == IF fromIn THEN rel.to_csv ELSE rel.from_csv
              named_col == IF fromIn THEN rel.from_column ELSE rel.to_column
              right_col == IF fromIn THEN rel.to_column ELSE rel.from_column
              key       == StoredName(named, named_col)
          IN  /\ log'[Len(log')].detail[3] = key
              /\ result' = PdMerge(result, mapped[joining], <<key>>, <<right_col>>, how,
                                   "", "_" \o Prefix8(joining)).df]_vars

\* C28: the cross-join fallback leaves the columns of the accumulated result
\* under their names: they are the first columns of the new result.
C28_FallbackKeepsNames ==
    [][FallbackStep =>
          /\ Range(result.cols) \subseteq Range(result'.cols)
          /\ SubSeq(result'.cols, 1, Len(result.cols)) = result.cols]_vars

(***************************************************************************)
(* Properties of merge_dataframes (SpecFlat).                              *)
(***************************************************************************)
RenamedCols(i) == apply_column_mapping(dfs[i], MappingAt(column_mappings, i)).cols

AbsentKeys(i) == SelectSeq(merge_keys, LAMBDA k : \A n \in DOMAIN RenamedCols(i) :
                                                     RenamedCols(i)[n] # k)

Offending == {i \in DOMAIN dfs : AbsentKeys(i) # <<>>}

NoJoinExecuted ==
    /\ result = NoTable
    /\ \A n \in DOMAIN log : log[n].action = "column_mapping"

\* C4: with two or more tables, a merge key absent from some table after the
\* renames makes merge_dataframes raise before any join; the error names the
\* offending table, the missing keys and that table's columns.
C4_MissingKeysRaiseBeforeJoin ==
    (pc # "start" /\ how \in VALID_JOIN_TYPES /\ Len(dfs) >= 2 /\ Offending # {})
        => /\ pc = "error"
           /\ error.kind = "MissingMergeKeys"
           /\ \E i \in Offending :
                 /\ error.table = CsvName(i)
                 /\ error.missing = AbsentKeys(i)
                 /\ error.available = RenamedCols(i)
           /\ NoJoinExecuted

\* the raise for a key that the table had until its rename took it away
C4_KeyRenamedAway ==
    /\ pc = "error" /\ error.kind = "MissingMergeKeys"
    /\ \E i \in Offending :
          /\ error.table = CsvName(i)
          /\ \E n \in DOMAIN error.missing : error.missing[n] \in Range(dfs[i].cols)

\* C22: merge_dataframes given exactly one table and a valid join type
\* returns that table with its rows and column names as passed in (no rename
\* applied, no merge key looked for) and a log of the one entry saying that no
\* merge is needed.
C22_SingleTableReturned ==
    (pc # "start" /\ Len(dfs) = 1 /\ how \in {"inner", "left", "right", "outer"})
        => /\ pc = "done"
           /\ error = NoError
           /\ result = dfs[1]
           /\ log = <<[action |-> "skip", detail |-> <<>>]>>
           /\ mapped_dfs = <<>>

\* one table returned although its rename map names one of its columns and
\* the merge key is in no column of it
C22_RenameAndKeyIgnored ==
    /\ pc = "done"
    /\ dfs = <<TableA>>
    /\ column_mappings = <<("id" :> "pk")>>
    /\ merge_keys = <<"zz">>
    /\ result = TableA

\* a join of the loop has succeeded
FlatJoined == pc = "joining" /\ pc' = "joining" /\ next_i' = next_i + 1

\* the columns of the table being joined that are no merge key
NonKeyCols == SelectSeq(mapped_dfs[next_i].cols, LAMBDA c : c \notin Range(merge_keys))

\* C23: a non-key column of the k-th table whose name is already in the
\* accumulated result enters the merged table as name_k, the columns of the
\* accumulated result keep their names, and the merged table never has two
\* columns of the same name.
C23_CollisionsSuffixed ==
    [][FlatJoined =>
          /\ SubSeq(result'.cols, 1, Len(result.cols)) = result.cols
          /\ SubSeq(result'.cols, Len(result.cols) + 1, Len(result'.cols)) =
                [n \in DOMAIN NonKeyCols |->
                    IF NonKeyCols[n] \in Range(result.cols)
                    THEN NonKeyCols[n] \o "_" \o ToString(next_i)
                    ELSE NonKeyCols[n]]
          /\ ~HasDuplicates(result'.cols)]_vars

(***************************************************************************)
(* Properties of auto_detect_relationships (SpecDetect).                   *)
(***************************************************************************)
Link(r) == <<r.from_csv, r.from_column, r.to_csv, r.to_column, r.confidence>>

Links(rels) == {Link(rels[n]) : n \in DOMAIN rels}

\* C6: detection on [A, B] and on [B, A] returns the same set of
\* relationships, the from (FK) and to (PK) sides included.
C6_DetectionSymmetric ==
    (pc = "done" /\ Len(files_info) = 2) => Links(detected) = Links(detected_rev)

DistinctIds ==
    \A i, j \in DOMAIN files_info :
        i # j => files_info[i].csv_file_id # files_info[j].csv_file_id

ColumnNamed(f, name) == CHOOSE c \in Range(f.columns) : c.name = name

\* key-like, on the name as it is written
KeyLikeAsWritten(name) ==
    \/ EndsWith(name, "id")
    \/ name = "id"
    \/ EndsWith(name, "_key")
    \/ EndsWith(name, "_code")

\* key-like, on the lower-cased name
KeyLikeAnyCase(name) == KeyLikeAsWritten(Lower(name))

\* the column names files i and j must be related on
Expected(i, j, KeyLike(_)) ==
    {name \in {c.name : c \in Range(files_info[i].columns)} :
        /\ \E c \in Range(files_info[j].columns) : c.name = name
        /\ ColumnNamed(files_info[i], name).dtype = ColumnNamed(files_info[j], name).dtype
        /\ KeyLike(name)}

Between(r, i, j) ==
    {r.from_csv, r.to_csv} = {files_info[i].csv_file_id, files_info[j].csv_file_id}

FileOf(id) == CHOOSE f \in Range(files_info) : f.csv_file_id = id

DistinctCount(id, name) == ColumnNamed(FileOf(id), name).nunique

\* exactly one relationship per unordered pair of files and expected column
\* name and none else, each with from_column = to_column, confidence 0.9
\* (9 tenths) and no lower distinct count on its to side than on its from side
DetectionExact(KeyLike(_)) ==
    /\ \A i, j \in DOMAIN files_info : i < j =>
          \A name \in Expected(i, j, KeyLike) :
              Cardinality({n \in DOMAIN detected :
                              /\ Between(detected[n], i, j)
                              /\ detected[n].from_column = name}) = 1
    /\ \A n \in DOMAIN detected :
          LET r == detected[n]
          IN  /\ r.from_column = r.to_column
              /\ r.confidence = 9
              /\ r.from_csv # r.to_csv
              /\ \E i, j \in DOMAIN files_info :
                    i < j /\ Between(r, i, j) /\ r.from_column \in Expected(i, j, KeyLike)
              /\ DistinctCount(r.to_csv, r.to_column)
                    >= DistinctCount(r.from_csv, r.from_column)

\* on equal distinct counts the to side is the file listed first
TieGoesToFirstListed ==
    \A n \in DOMAIN detected :
        LET r == detected[n]
        IN  DistinctCount(r.to_csv, r.to_column) = DistinctCount(r.from_csv, r.from_column)
                => \E i, j \in DOMAIN files_info :
                      /\ i < j
                      /\ files_info[i].csv_file_id = r.to_csv
                      /\ files_info[j].csv_file_id = r.from_csv

C8_ClassificationIdempotent == pc = "done" => meta2 = meta

NonMissing(col) == dropna(df_in[col].cells)

\* the non-missing values of a string column that parse as datetimes
ParsingValues(col) == SelectSeq(NonMissing(col), LAMBDA c : c \subseteq DOMAIN DateOf)

\* C9: a string-valued column is classified datetime whenever more than 70% of
\* its non-missing values parse as datetimes, and as another kind when 70% or
\* fewer do.
C9_DatetimeAboveSeventyPercent ==
    pc # "classify" =>
        \A col \in DOMAIN df_in :
            (df_in[col].dtype = "object" /\ NonMissing(col) # <<>>) =>
                (meta[col].dtype = "datetime"
                    <=> 10 * Len(ParsingValues(col)) > 7 * Len(NonMissing(col)))

\* C10: every column gets exactly one kind; empty iff it has no non-missing
\* value; a numeric column is categorical iff distinct_count <= 30 and
\* distinct_count / non_missing_count < 0.3, and numeric otherwise.
C10_KindsOfColumns ==
    pc # "classify" =>
        /\ DOMAIN meta = DOMAIN df_in
        /\ \A col \in DOMAIN df_in :
              LET d == Cardinality(UNION Range(NonMissing(col)))
                  n == Len(NonMissing(col))
              IN  /\ meta[col].dtype \in {"numeric", "categorical", "datetime", "empty"}
                  /\ meta[col].dtype = "empty" <=> n = 0
                  /\ (df_in[col].dtype = "int64" /\ n > 0) =>
                        /\ meta[col].dtype = "categorical" <=> (d <= 30 /\ 10 * d < 3 * n)
                        /\ meta[col].dtype = "numeric" <=> ~(d <= 30 /\ 10 * d < 3 * n)

\* 31 distinct values under the ratio, and a ratio of exactly 0.3, both met in
\* one classified table
C10_BoundaryColumns ==
    /\ pc = "done"
    /\ "c2" \in DOMAIN df_in
    /\ df_in["c1"] = Ints(31, 104) /\ meta["c1"].dtype = "numeric"
    /\ df_in["c2"] = Ints(3, 10) /\ meta["c2"].dtype = "numeric"

\* C16: after classify_columns returns, the table its caller passed in holds
\* the same values and column types as before the call.
C16_CallerTableUntouched ==
    pc # "classify" =>
        \A col \in DOMAIN df_in :
            /\ df[col].dtype = df_in[col].dtype
            /\ \A i \in DOMAIN df_in[col].cells : df[col].cells[i] = df_in[col].cells[i]

(***************************************************************************)
(* Properties of clean_dataframe (SpecClean).                              *)
(***************************************************************************)
\* a step of one of the stages between the classification and the summary
DataStageStep ==
    pc \in {"clean_missing", "clean_duplicates", "clean_categoricals", "clean_dates",
            "clean_outliers", "clean_normalize"} /\ pc' # "error"

\* the step changed a cell or removed a row
DataChanged == clean_df'.rows # clean_df.rows

EntryAppended == Len(log') > Len(log)

\* C11: a stage that changed a cell or removed a row appends a log entry, and
\* a stage that changed nothing appends none.
C11_LogTellsEveryChange ==
    [][DataStageStep => (DataChanged <=> EntryAppended)]_vars

\* C12: when the cleaned table is cleaned again with the same dedup_subset,
\* the duplicate removal of that second run removes no row.
C12_DedupIdempotent ==
    [][(pc = "clean_duplicates" /\ run >= 2 /\ pc' # "error")
          => Len(clean_df'.rows) = Len(clean_df.rows)]_vars

HasMissing(t) == \E i \in DOMAIN t.rows : \E k \in DOMAIN t.cols : t.rows[i][k] = {}

\* C13: with numeric_strategy mean, median or drop the cleaned table holds no
\* missing value in any column.
C13_NoMissingAfterCleaning ==
    (pc = "done" /\ options.numeric_strategy \in {"mean", "median", "drop"})
        => ~HasMissing(clean_df)

NewEntries == SubSeq(log', Len(log) + 1, Len(log'))

Q1(col) == Quantile(NonMissingValues(Column(clean_df, col)), 1, 4)

Q3(col) == Quantile(NonMissingValues(Column(clean_df, col)), 3, 4)

IQR(col) == Sub(Q3(col), Q1(col))

LowerBound(col) == Sub(Q1(col), Mul(Num(3, 2), IQR(col)))

UpperBound(col) == Add(Q3(col), Mul(Num(3, 2), IQR(col)))

Inside(v, col) == ~Less(v, LowerBound(col)) /\ ~Less(UpperBound(col), v)

\* the values of the column, before the step, outside the bounds
OutsideCount(col) ==
    Len(SelectSeq(NonMissingValues(Column(clean_df, col)), LAMBDA v : ~Inside(v, col)))

\* the column after the step: every value within the bounds of the column
\* before the step, the values that were inside unchanged, and one entry with
\* the number of values that were outside, none when there was none
CappedToBounds(col) ==
    /\ \A i \in DOMAIN clean_df.rows :
          LET before == Column(clean_df, col)[i]
              after == Column(clean_df', col)[i]
          IN  /\ before = {} <=> after = {}
              /\ \A v \in after : Inside(v, col)
              /\ \A v \in before : Inside(v, col) => after = {v}
    /\ LET entries == SelectSeq(NewEntries, LAMBDA e : e.column = col)
       IN  IF OutsideCount(col) > 0
           THEN /\ Len(entries) = 1
                /\ entries[1].action = "cap_outliers_iqr"
                /\ entries[1].detail.n_outliers = OutsideCount(col)
           ELSE entries = <<>>

StageOf(action) ==
    CASE action = "parse_date" -> 0
      [] action \in {"impute_mean", "impute_median", "drop_missing", "fill_categorical",
                     "drop_missing_dates"} -> 1
      [] action = "remove_duplicates" -> 2
      [] action = "standardise_categorical" -> 3
      [] action = "format_date" -> 4
      [] action \in {"cap_outliers_iqr", "cap_outliers_zscore"} -> 5
      [] action \in {"normalize_minmax", "normalize_zscore"} -> 6
      [] action = "summary" -> 7

Cleaning ==
    pc \in {"clean_classify", "clean_missing", "clean_duplicates", "clean_categoricals",
            "clean_dates", "clean_outliers", "clean_normalize", "clean_summary", "done"}

\* C15: the entries of the log are in stage order (missing values, duplicates,
\* categoricals, dates, outliers, normalisation), and a returned log ends with
\* its one summary entry.
C15_LogInStageOrder ==
    Cleaning =>
        /\ \A i, j \in DOMAIN log : i < j => StageOf(log[i].action) <= StageOf(log[j].action)
        /\ \A i \in DOMAIN log :
              log[i].action = "summary" <=> (pc = "done" /\ i = Len(log))
        /\ pc = "done" => log # <<>>

\* a returned log with entries of five stages
C15_FiveStagesLogged ==
    /\ pc = "done"
    /\ Cardinality({StageOf(log[i].action) : i \in DOMAIN log}) >= 5

\* the number of rows a log entry reports as removed
RowsReported(entry) ==
    IF entry.action \in {"drop_missing", "drop_missing_dates"} THEN entry.detail.n_missing
    ELSE IF entry.action = "remove_duplicates" THEN entry.detail.n_dupes
    ELSE 0

RECURSIVE TotalReported(_)
TotalReported(entries) ==
    IF entries = <<>> THEN 0
    ELSE RowsReported(Head(entries)) + TotalReported(Tail(entries))

\* C29: at every stage of clean_dataframe the working table has at most the
\* rows and exactly the number of columns of the table passed in, and the
\* rows_removed of the summary entry is the sum of the rows reported by the
\* drop_missing, drop_missing_dates and remove_duplicates entries of the run.
C29_RowsRemovedAccounted ==
    /\ pc # "clean_classify" =>
          /\ Len(clean_df.rows) <= Len(clean_arg.rows)
          /\ Len(clean_df.cols) = Len(clean_arg.cols)
          /\ original_rows = Len(clean_arg.rows)
          /\ original_rows - Len(clean_df.rows) = TotalReported(log)
    /\ pc = "done" =>
          /\ log[Len(log)].action = "summary"
          /\ log[Len(log)].detail.rows_removed = original_rows - Len(clean_df.rows)
          /\ log[Len(log)].detail.rows_removed = TotalReported(log)
          /\ log[Len(log)].detail.cols = log[Len(log)].detail.original_cols

\* a run that dropped rows for missing numbers and for duplicates: three in all
C29_ThreeRowsAccounted ==
    /\ pc = "done"
    /\ log[Len(log)].detail.rows_removed = 3
    /\ \E n \in DOMAIN log : log[n].action = "drop_missing"
    /\ \E n \in DOMAIN log : log[n].action = "remove_duplicates"

(***************************************************************************)
(* Properties of detect_candidate_keys (SpecKeys).                         *)
(***************************************************************************)
\* the candidates reported for the column at position i
ReportedFor(i) == SelectSeq(candidates, LAMBDA c : c.column = key_df[i].name)

KeyDistinct(i) == Cardinality(UNION Range(key_df[i].cells))

NumericWithValues(i) ==
    /\ key_df[i].dtype \in {"int64", "float64"}
    /\ KeyDistinct(i) > 0

\* the name of the column, trimmed and lower-cased, ends with id, is id, or
\* ends with _key
KeyLikeName(i) ==
    LET name == Strip(Lower(key_df[i].name))
    IN  EndsWith(name, "id") \/ name = "id" \/ EndsWith(name, "_key")

\* C18: every numeric column with distinct_count / row_count > 0.9 is reported
\* as a high-uniqueness candidate, whether or not its name is key-like.
C18_HighUniquenessAlwaysReported ==
    pc = "done" =>
        \A i \in DOMAIN key_df :
            (NumericWithValues(i) /\ 10 * KeyDistinct(i) > 9 * RowCount(key_df)) =>
                \E k \in DOMAIN candidates :
                    /\ candidates[k].column = key_df[i].name
                    /\ candidates[k].key_type = "candidate"
                    /\ candidates[k].reason[1] = "High-uniqueness numeric"

\* the positions of the reported columns increase along the list
InColumnOrder ==
    \A k, l \in DOMAIN candidates :
        k < l => \E i, j \in DOMAIN key_df :
                    /\ i < j
                    /\ candidates[k].column = key_df[i].name
                    /\ candidates[l].column = key_df[j].name

\* C19: a numeric column with a key-like name is reported by the name rule,
\* as primary iff distinct_count / row_count > 0.95 and as candidate
\* otherwise; the candidates follow the column order of the table; an empty
\* table and an all-missing column yield no candidate.
C19_NameRule ==
    pc = "done" =>
        /\ \A i \in DOMAIN key_df :
              (KeyLikeName(i) /\ NumericWithValues(i) /\ RowCount(key_df) > 0) =>
                  /\ Len(ReportedFor(i)) = 1
                  /\ ReportedFor(i)[1].reason[1] \in {"Numeric ID column",
                                                      "Numeric ID column (FK?)"}
                  /\ ReportedFor(i)[1].key_type =
                        IF 100 * KeyDistinct(i) > 95 * RowCount(key_df)
                        THEN "primary" ELSE "candidate"
        /\ InColumnOrder
        /\ RowCount(key_df) = 0 => candidates = <<>>
        /\ \A i \in DOMAIN key_df : KeyDistinct(i) = 0 => ReportedFor(i) = <<>>

\* a table of 20 rows with a key-like column of 19 distinct values, reported
\* as candidate, before a key-like column of 20 distinct values, reported as
\* primary
C19_NineteenOfTwenty ==
    /\ pc = "done"
    /\ Len(key_df) = 2 /\ RowCount(key_df) = 20
    /\ key_df[1].name = " Order_Key " /\ KeyDistinct(1) = 19
    /\ key_df[2].name = "paid" /\ KeyDistinct(2) = 20
    /\ Len(candidates) = 2
    /\ candidates[1].column = " Order_Key " /\ candidates[1].key_type = "candidate"
    /\ candidates[2].column = "paid" /\ candidates[2].key_type = "primary"

(***************************************************************************)
(* Properties of both merge functions (SpecMerge).                         *)
(***************************************************************************)
InvalidHow == how \notin {"inner", "left", "right", "outer"}

\* the call has raised with no table renamed, none joined and none returned
RaisedBeforeAnyWork ==
    /\ pc' = "error"
    /\ result' = NoTable
    /\ log' = <<>>
    /\ mapped' = EmptyMap /\ mapped_dfs' = <<>>
    /\ merged_ids' = {} /\ next_i' = 0

\* C20: a join type other than inner, left, right, outer makes either merge
\* function raise before any column is renamed or any join performed, and no
\* merged table is returned; merge_dataframes raises the invalid-join-type
\* error even for a single table, merge_by_relationships raises it unless the
\* relationship list is empty, which it reports first.
C20_InvalidJoinTypeRejected ==
    /\ [](InvalidHow => (pc \in {"start", "error"} /\ result = NoTable))
    /\ [][/\ (InvalidHow /\ FlatStart) =>
                (RaisedBeforeAnyWork /\ error'.kind = "InvalidJoinType")
          /\ (InvalidHow /\ RelStart) =>
                /\ RaisedBeforeAnyWork
                /\ error'.kind = IF relationships = <<>> THEN "NoRelationships"
                                 ELSE "InvalidJoinType"]_vars

\* merge_dataframes called with one table and the join type "full" has raised
C20_OneTableFullJoin ==
    /\ pc = "error"
    /\ how = "full"
    /\ Len(dfs) = 1
    /\ error.kind = "InvalidJoinType"
    /\ result = NoTable

NoJoinLogged == \A n \in DOMAIN log : log[n].action \notin {"merge", "warning", "summary"}

\* C21: merge_dataframes given two or more tables and no merge key, and
\* merge_by_relationships given no relationship, raise with no join executed
\* and return no merged table.
C21_NoKeyNoEdgeRejected ==
    /\ []((Len(dfs) >= 2 /\ merge_keys = <<>>) => (pc # "done" /\ NoJoinLogged))
    /\ [][/\ (FlatJoin /\ merge_keys = <<>>) =>
                /\ pc' = "error"
                /\ error'.kind = "MergeError"
                /\ result' = mapped_dfs[1]
                /\ NoJoinLogged'
          /\ (RelStart /\ relationships = <<>>) =>
                (RaisedBeforeAnyWork /\ error'.kind = "NoRelationships")]_vars

\* merge_dataframes has raised on three tables, a valid join type and no key
C21_ThreeTablesNoKey ==
    /\ pc = "error"
    /\ Len(dfs) = 3 /\ merge_keys = <<>> /\ how = "outer"
    /\ error.kind = "MergeError"
    /\ next_i = 2

MappingEntries == SelectSeq(log, LAMBDA e : e.action = "column_mapping")

JoinEntries == SelectSeq(log, LAMBDA e : e.action \in {"merge", "warning"})

\* every column_mapping entry precedes every join entry and the summary
MappingsFirst ==
    \A i, j \in DOMAIN log :
        (log[i].action = "column_mapping"
            /\ log[j].action \in {"merge", "warning", "summary"}) => i < j

\* one summary entry, the last of the log, with the counts of the returned table
SummaryLast ==
    /\ Len(SelectSeq(log, LAMBDA e : e.action = "summary")) = 1
    /\ log[Len(log)] = [action |-> "summary",
                        detail |-> <<Len(result.rows), Len(result.cols)>>]

\* the tables of dfs_map with a non-empty rename map
RenamedIds ==
    {cid \in DOMAIN dfs_map :
        cid \in DOMAIN column_mappings /\ DOMAIN column_mappings[cid] # {}}

\* the positions of dfs with a non-empty rename map
RenamedPositions ==
    {i \in DOMAIN dfs : i \in DOMAIN column_mappings /\ DOMAIN column_mappings[i] # {}}

\* the log merge_by_relationships returns
RelLogComplete ==
    (pc = "done" /\ merged_ids # {}) =>
        /\ Len(MappingEntries) = Cardinality(RenamedIds)
        /\ {MappingEntries[n].detail[1] : n \in DOMAIN MappingEntries} = RenamedIds
        /\ MappingsFirst
        /\ Len(JoinEntries) = Cardinality(merged_ids) - 1
        /\ {JoinEntries[n].detail[1] : n \in DOMAIN JoinEntries}
              = merged_ids \ {relationships[1].from_csv}
        /\ SummaryLast

\* the log merge_dataframes returns when given at least least_tables tables
FlatLogComplete(least_tables) ==
    (pc = "done" /\ merged_ids = {} /\ Len(dfs) >= least_tables) =>
        /\ Len(MappingEntries) = Cardinality(RenamedPositions)
        /\ {MappingEntries[n].detail[1] : n \in DOMAIN MappingEntries} = RenamedPositions
        /\ MappingsFirst
        /\ Len(JoinEntries) = Len(dfs) - 1
        /\ \A n \in DOMAIN JoinEntries :
              JoinEntries[n].action = "merge" /\ JoinEntries[n].detail[1] = n + 1
        /\ SummaryLast

JoinEntryAppended(joined) ==
    /\ Len(log') = Len(log) + 1
    /\ SubSeq(log', 1, Len(log)) = log
    /\ log'[Len(log')].action \in {"merge", "warning"}
    /\ log'[Len(log')].detail[1] = joined

\* a step that executes a join appends the entry of that join, and no other
\* step appends a join entry
JoinsLoggedAsExecuted ==
    /\ (pc = "loop" /\ merged_ids' # merged_ids) =>
          \E cid \in merged_ids' \ merged_ids :
              merged_ids' = merged_ids \cup {cid} /\ JoinEntryAppended(cid)
    /\ (pc = "joining" /\ next_i' # next_i) =>
          (next_i' = next_i + 1 /\ JoinEntryAppended(next_i))
    /\ (Len(log') > Len(log) /\ log'[Len(log')].action \in {"merge", "warning"}) =>
          \/ pc = "loop" /\ merged_ids' # merged_ids
          \/ pc = "joining" /\ next_i' # next_i

\* C24 as written: the log of either merge function holds one column_mapping
\* entry per table with a non-empty rename map, all before the first join
\* entry, one entry per executed join in execution order, and one summary
\* entry, the last, with the row and column counts of the returned table.
C24_LogAsWritten ==
    /\ [](RelLogComplete /\ FlatLogComplete(1))
    /\ [][JoinsLoggedAsExecuted]_vars

\* C24: the same for merge_by_relationships and for merge_dataframes given two
\* or more tables; the log of a single-table call is its one skip entry.
C24_LogOfAMerge ==
    /\ [](RelLogComplete /\ FlatLogComplete(2))
    /\ [][JoinsLoggedAsExecuted]_vars

\* a returned log with a rename, a keyed join, a cross join and the summary
C24_RenameJoinCrossSummary ==
    /\ pc = "done"
    /\ Len(log) = 5
    /\ log[1].action = "column_mapping"
    /\ log[2].action = "start"
    /\ log[3].action = "merge"
    /\ log[4].action = "warning"
    /\ log[5].action = "summary"

(***************************************************************************)
(* Properties of the requests (SpecRequests).                              *)
(***************************************************************************)
\* C17: no classification, cleaning or join is carried out on a table with
\* more rows than the configured maximum: every request on such a table is
\* rejected before any processing.
C17_RowCapBeforeProcessing ==
    \A i \in DOMAIN performed : performed[i].rows <= max_rows

(***************************************************************************)
(* Properties of the requests of several sessions (SpecSessions).          *)
(***************************************************************************)
\* C30: a response with data carries data of dashboards of the session the
\* request was made with only, and a request naming a dashboard or a merge of
\* another session is answered 404.
C30_SessionIsolation ==
    /\ served.status = 200 =>
          \A d \in served.data_of : dashboards[d].session_id = served.sid
    /\ served.owner \notin {"", served.sid} => served.status = 404

====
